---- MODULE Spec2Model ----
(***************************************************************************)
(* QuickCommand: the suggestion pipeline of ai/command_ai.py               *)
(* (CommandAI.suggest_command, the two backends, the response parser, the  *)
(* validator and the fallback matcher) over the Settings of                *)
(* config/settings.py.                                                     *)
(*                                                                         *)
(* A Python str is a sequence of one-character strings, so that strip(),   *)
(* lower(), startswith(), split() and the `in` substring test are computed *)
(* as Python computes them.  A code point outside ASCII is one element     *)
(* written "U+XXXX".  Any other Python value is a tagged record, see Py*.  *)
(***************************************************************************)
EXTENDS Integers, Sequences, FiniteSets, TLC

\* The state: a CommandAI over its Settings, the call of suggest_command in
\* progress or last returned, and a record on its way through the JSON text.
VARIABLES
  GEMINI_AVAILABLE,  \* whether google.generativeai could be imported
  settings,          \* CommandAI.settings
  openai_client,     \* CommandAI.openai_client
  gemini_model,      \* CommandAI.gemini_model
  pc,                \* where suggest_command is: "idle" (not called since the
                     \* construction), "awaiting" (suspended in the await of
                     \* a backend call), "returned"
  current_request,   \* the argument of the call in progress or last returned
  backend,           \* the backend awaited or last awaited, "none" if none
  net_calls,         \* backend requests issued by that call
  response,          \* what the backend call ended with
  result,            \* what suggest_command returned (or raised)
  via,               \* the statement that produced it: "fallback" (lines 50
                     \* and 56), "parsed" (lines 76 and 106), "except" (lines
                     \* 91 and 110)
  first_fallback,    \* the first call of _get_fallback_suggestion of the
                     \* process: its argument, what it returned and the
                     \* statement that made it (as via)
  codec_pc,          \* the round trip of a record through the canonical JSON
                     \* text: "off", "record", "encoded", "decoded"
  codec_record,      \* the record
  codec_text,        \* its encoding
  codec_decoded,     \* what _parse_ai_response makes of the encoding
  probe_outcome,     \* what probing each PowerShell executable ended with
  is_available,      \* PowerShellHandler.is_available
  ps_command,        \* PowerShellHandler.ps_command, Unset if never assigned
  ps_probed,         \* the executables __init__ probed, in the order probed
  exec_pc,           \* where the handler's execute is: "off", "idle",
                     \* "running" (in subprocess.run), "streaming" (in the
                     \* readline loop), "returned"
  exec_handler,      \* the handler executing: "powershell", "python", "none"
  exec_command,      \* the argument of execute
  exec_path,         \* "single" (_execute_single_command), "script"
                     \* (_execute_script) or "none"
  launches,          \* subprocess.run / Popen calls made by this execute
  launched,          \* the executable of the last one
  report,            \* the last message execute printed about the outcome
  raised,            \* whether an exception left execute
  tmp_file,          \* the temporary script: "none", "exists", "deleted"
  unlink_attempted,  \* whether os.unlink(tmp_file_path) was called
  child,             \* the subordinate process: what it has yet to write,
                     \* how it ends and whether it has exited
  out_pipe,          \* what is in the stdout pipe, written and not yet read
  err_pipe,          \* blocks in the stderr pipe, written and not yet read
  written,           \* the lines the process has written to stdout, in order
  err_written,       \* whether the process has written to stderr
  printed,           \* what execute has printed of the process's stdout
  err_reported,      \* whether execute has printed the process's stderr
  loop_pc,           \* where run_interactive is: "prompt" (input of line 234),
                     \* "confirm" (input of lines 167 and 265), "approved"
                     \* (about to call execute_command), "executing" (in
                     \* execute_command), "ended"; "off" if it does not run
  recommendations,   \* the dict show_recommendations returned
  pending,           \* the command shown and asked about
  last_answer,       \* the last answer to the confirmation prompt
  to_execute,        \* the argument of execute_command
  require_confirmation  \* Settings.require_confirmation

-----------------------------------------------------------------------------
(* str primitives *)

UpperChars ==
  <<"A","B","C","D","E","F","G","H","I","J","K","L","M",
    "N","O","P","Q","R","S","T","U","V","W","X","Y","Z">>

LowerChars ==
  <<"a","b","c","d","e","f","g","h","i","j","k","l","m",
    "n","o","p","q","r","s","t","u","v","w","x","y","z">>

\* The characters str.strip() removes (the ASCII ones).
Whitespace == {" ", "\t", "\n", "\r"}

LowerChar(c) ==
  IF \E i \in 1..Len(UpperChars) : UpperChars[i] = c
  THEN LowerChars[CHOOSE i \in 1..Len(UpperChars) : UpperChars[i] = c]
  ELSE c

\* str.lower()
Lower(s) == SubSeq([i \in 1..Len(s) |-> LowerChar(s[i])], 1, Len(s))

\* str.strip()
Strip(s) ==
  LET keep == {i \in 1..Len(s) : s[i] \notin Whitespace}
  IN  IF keep = {} THEN <<>>
      ELSE LET first == CHOOSE i \in keep : \A j \in keep : i <= j
               last  == CHOOSE i \in keep : \A j \in keep : j <= i
           IN  SubSeq(s, first, last)

\* s.startswith(p)
StartsWith(s, p) == Len(s) >= Len(p) /\ SubSeq(s, 1, Len(p)) = p

\* sub in s
Contains(s, sub) ==
  \E i \in 1..(Len(s) - Len(sub) + 1) : \A j \in 1..Len(sub) : s[i + j - 1] = sub[j]

\* The index of the first occurrence of character c in s, 0 if there is none.
IndexOf(s, c) ==
  IF \E i \in 1..Len(s) : s[i] = c
  THEN CHOOSE i \in 1..Len(s) : s[i] = c /\ \A j \in 1..(i - 1) : s[j] # c
  ELSE 0

RECURSIVE Split(_, _)
\* s.split(c): the pieces of s between the occurrences of character c.
Split(s, c) ==
  LET i == IndexOf(s, c)
  IN  IF i = 0 THEN <<s>>
      ELSE <<SubSeq(s, 1, i - 1)>> \o Split(SubSeq(s, i + 1, Len(s)), c)

\* s.split(c, 1)[1], for an s that holds c: what follows the first c.
AfterFirst(s, c) == SubSeq(s, IndexOf(s, c) + 1, Len(s))

-----------------------------------------------------------------------------
(* Python values *)

PyNone     == [t |-> "none"]
PyStr(s)   == [t |-> "str", v |-> s]
PyNum(s)   == [t |-> "num", v |-> s]
PyBool(b)  == [t |-> "bool", v |-> b]
PyList(xs) == [t |-> "list", v |-> xs]
\* A dict is the sequence of its (key, value) items, each key once.
PyDict(kv) == [t |-> "dict", v |-> kv]

IsStr(x)  == x.t = "str"
IsDict(x) == x.t = "dict"

\* key in d
HasKey(d, k) == \E i \in 1..Len(d.v) : d.v[i][1] = k

\* d.get(k, default)
Get(d, k, default) ==
  IF HasKey(d, k)
  THEN d.v[CHOOSE i \in 1..Len(d.v) : d.v[i][1] = k][2]
  ELSE default

\* bool(x) for the values a record field can hold
Truthy(x) ==
  CASE x.t = "none" -> FALSE
    [] x.t = "str"  -> x.v # <<>>
    [] x.t = "num"  -> x.v \notin {<<"0">>, <<"-","0">>}
    [] x.t = "bool" -> x.v
    [] x.t = "list" -> x.v # <<>>
    [] x.t = "dict" -> x.v # <<>>
    [] OTHER        -> TRUE

-----------------------------------------------------------------------------
(* json.loads, as far as the response texts of the model go: objects, arrays, *)
(* strings with escapes, numbers (integer and fraction), true, false, null.   *)

Digits == {"0","1","2","3","4","5","6","7","8","9"}

\* The code points outside ASCII that the model's texts hold, with the four
\* hexadecimal digits of their \uXXXX escape.
CodePoints ==
  << <<"U+26A0", <<"2","6","a","0">> >>,
     <<"U+FE0F", <<"f","e","0","f">> >> >>

IsNonAscii(c) == \E i \in 1..Len(CodePoints) : CodePoints[i][1] = c

HexOf(c) == CodePoints[CHOOSE i \in 1..Len(CodePoints) : CodePoints[i][1] = c][2]

IsKnownHex(h) == \E i \in 1..Len(CodePoints) : CodePoints[i][2] = Lower(h)

CharOfHex(h) == CodePoints[CHOOSE i \in 1..Len(CodePoints) : CodePoints[i][2] = Lower(h)][1]

\* The one-character escapes of a JSON string, \X -> character.
SimpleEscapes ==
  << <<"\"", "\"">>, <<"\\", "\\">>, <<"/", "/">>,
     <<"n", "\n">>, <<"t", "\t">>, <<"r", "\r">> >>

IsSimpleEscape(c) == \E i \in 1..Len(SimpleEscapes) : SimpleEscapes[i][1] = c

\* Unescape with the letter of the escape taken for the character it names.
Unescape_letter(c) == c

Unescape(c) == SimpleEscapes[CHOOSE i \in 1..Len(SimpleEscapes) : SimpleEscapes[i][1] = c][2]

\* A failed parse: json.JSONDecodeError.
JsonFail == [ok |-> FALSE, val |-> PyNone, rest |-> <<>>]

JsonOk(val, rest) == [ok |-> TRUE, val |-> val, rest |-> rest]

\* s without its leading JSON whitespace
SkipWs(s) ==
  LET keep == {i \in 1..Len(s) : s[i] \notin Whitespace}
  IN  IF keep = {} THEN <<>>
      ELSE SubSeq(s, CHOOSE i \in keep : \A j \in keep : i <= j, Len(s))

\* The length of the longest prefix of s made of digits.
DigitRun(s) ==
  LET stop == {i \in 1..Len(s) : s[i] \notin Digits}
  IN  IF stop = {} THEN Len(s)
      ELSE (CHOOSE i \in stop : \A j \in stop : i <= j) - 1

\* A number: -? (0 | [1-9][0-9]*) (. [0-9]+)?
ParseNumber(s) ==
  LET neg   == s # <<>> /\ s[1] = "-"
      body  == IF neg THEN Tail(s) ELSE s
      run   == DigitRun(body)
      ilen  == IF run > 0 /\ body[1] = "0" THEN 1 ELSE run
      after == SubSeq(body, ilen + 1, Len(body))
      frun  == IF after # <<>> /\ after[1] = "." THEN DigitRun(Tail(after)) ELSE 0
      flen  == IF frun > 0 THEN frun + 1 ELSE 0
      total == (IF neg THEN 1 ELSE 0) + ilen + flen
  IN  IF ilen = 0 THEN JsonFail
      ELSE JsonOk(PyNum(SubSeq(s, 1, total)), SubSeq(s, total + 1, Len(s)))

RECURSIVE ParseString(_, _)
\* The rest of a string after its opening quote; acc is what was read of it.
ParseString(s, acc) ==
  LET stop == {i \in 1..Len(s) : s[i] \in {"\"", "\\", "\n", "\t", "\r"}}
  IN  IF stop = {} THEN JsonFail
      ELSE LET i   == CHOOSE k \in stop : \A j \in stop : k <= j
               run == acc \o SubSeq(s, 1, i - 1)
           IN  CASE s[i] = "\"" -> JsonOk(PyStr(run), SubSeq(s, i + 1, Len(s)))
                 [] s[i] = "\\" /\ Len(s) >= i + 1 /\ IsSimpleEscape(s[i + 1]) ->
                      ParseString(SubSeq(s, i + 2, Len(s)), Append(run, Unescape(s[i + 1])))
                 [] s[i] = "\\" /\ Len(s) >= i + 5 /\ s[i + 1] = "u"
                      /\ IsKnownHex(SubSeq(s, i + 2, i + 5)) ->
                      ParseString(SubSeq(s, i + 6, Len(s)),
                                  Append(run, CharOfHex(SubSeq(s, i + 2, i + 5))))
                 [] OTHER -> JsonFail

W_null  == <<"n","u","l","l">>
W_true  == <<"t","r","u","e">>
W_false == <<"f","a","l","s","e">>

\* A value that holds no other value, at the head of s.
ParseScalar(s) ==
  CASE s[1] = "\""                   -> ParseString(Tail(s), <<>>)
    [] s[1] = "-" \/ s[1] \in Digits -> ParseNumber(s)
    [] StartsWith(s, W_null)         -> JsonOk(PyNone, SubSeq(s, 5, Len(s)))
    [] StartsWith(s, W_true)         -> JsonOk(PyBool(TRUE), SubSeq(s, 5, Len(s)))
    [] StartsWith(s, W_false)        -> JsonOk(PyBool(FALSE), SubSeq(s, 6, Len(s)))
    [] OTHER                         -> JsonFail

\* The decoder is a pushdown parser.  mode "value": a value is to be read at
\* the head of s; mode "reduce": val was read, and goes to the object or the
\* array on top of the stack; "done" and "fail" end the run.  A frame of the
\* stack is an object or an array under construction: its items so far and,
\* for an object, the key whose value is being read.
JsonState(mode, s, stack, val) == [mode |-> mode, s |-> s, stack |-> stack, val |-> val]

JsonFailed == JsonState("fail", <<>>, <<>>, PyNone)

DictFrame(items, key) == [k |-> "dict", items |-> items, key |-> key]

ListFrame(items) == [k |-> "list", items |-> items]

\* After a key: the colon, then the key's value is to be read.
AfterKey(key, stack, items) ==
  IF ~key.ok \/ SkipWs(key.rest) = <<>> \/ Head(SkipWs(key.rest)) # ":" THEN JsonFailed
  ELSE JsonState("value", Tail(SkipWs(key.rest)),
                 Append(stack, DictFrame(items, key.val.v)), PyNone)

\* A member of an object is to be read at the head of s: its key first.
ExpectKey(s, stack, items) ==
  IF s = <<>> \/ s[1] # "\"" THEN JsonFailed
  ELSE AfterKey(ParseString(Tail(s), <<>>), stack, items)

\* What a scalar read at the head of a value leaves.
AfterScalar(r, stack) ==
  IF r.ok THEN JsonState("reduce", r.rest, stack, r.val) ELSE JsonFailed

\* mode "value", s being the input without its leading whitespace
StepValue(s, stack) ==
  IF s = <<>> THEN JsonFailed
  ELSE CASE s[1] = "{" /\ SkipWs(Tail(s)) # <<>> /\ Head(SkipWs(Tail(s))) = "}" ->
              JsonState("reduce", Tail(SkipWs(Tail(s))), stack, PyDict(<<>>))
         [] s[1] = "{" -> ExpectKey(SkipWs(Tail(s)), stack, <<>>)
         [] s[1] = "[" /\ SkipWs(Tail(s)) # <<>> /\ Head(SkipWs(Tail(s))) = "]" ->
              JsonState("reduce", Tail(SkipWs(Tail(s))), stack, PyList(<<>>))
         [] s[1] = "[" -> JsonState("value", Tail(s), Append(stack, ListFrame(<<>>)), PyNone)
         [] OTHER -> AfterScalar(ParseScalar(s), stack)

\* mode "reduce" under a frame, s being the input without its leading
\* whitespace, top the frame and items what it holds with the value read.
StepReduce(s, below, top, items) ==
  IF s = <<>> THEN JsonFailed
  ELSE CASE top.k = "dict" /\ s[1] = "," -> ExpectKey(SkipWs(Tail(s)), below, items)
         [] top.k = "dict" /\ s[1] = "}" -> JsonState("reduce", Tail(s), below, PyDict(items))
         [] top.k = "list" /\ s[1] = "," ->
              JsonState("value", Tail(s), Append(below, ListFrame(items)), PyNone)
         [] top.k = "list" /\ s[1] = "]" -> JsonState("reduce", Tail(s), below, PyList(items))
         [] OTHER -> JsonFailed

\* d[key] = val on the items of a dict: a key already there keeps its place.
DictSet(items, key, val) ==
  IF \E i \in 1..Len(items) : items[i][1] = key
  THEN [i \in 1..Len(items) |-> IF items[i][1] = key THEN <<key, val>> ELSE items[i]]
  ELSE Append(items, <<key, val>>)

\* The item a frame gets with the value read: (key, value) in an object.
FrameItems(top, val) ==
  IF top.k = "dict" THEN DictSet(top.items, top.key, val) ELSE Append(top.items, val)

JsonStep(st) ==
  CASE st.mode = "value" -> StepValue(SkipWs(st.s), st.stack)
    [] st.stack = <<>>   -> JsonState("done", st.s, <<>>, st.val)
    [] OTHER             -> StepReduce(SkipWs(st.s), SubSeq(st.stack, 1, Len(st.stack) - 1),
                                       st.stack[Len(st.stack)],
                                       FrameItems(st.stack[Len(st.stack)], st.val))

RECURSIVE JsonRun(_)
JsonRun(st) == IF st.mode \in {"done", "fail"} THEN st ELSE JsonRun(JsonStep(st))

\* json.loads(content): ok is FALSE where it raises json.JSONDecodeError (no
\* value, or text after the value).
JsonResult(st) ==
  IF st.mode = "done" /\ SkipWs(st.s) = <<>> THEN JsonOk(st.val, <<>>) ELSE JsonFail

json_loads(content) == JsonResult(JsonRun(JsonState("value", content, <<>>, PyNone)))

-----------------------------------------------------------------------------
(* ai/command_ai.py: the literals *)

K_command     == <<"c","o","m","m","a","n","d">>
K_description == <<"d","e","s","c","r","i","p","t","i","o","n">>
K_shell       == <<"s","h","e","l","l">>
K_warning     == <<"w","a","r","n","i","n","g">>

S_powershell == <<"p","o","w","e","r","s","h","e","l","l">>
S_python     == <<"p","y","t","h","o","n">>
S_openai     == <<"o","p","e","n","a","i">>
S_gemini     == <<"g","e","m","i","n","i">>
S_ollama     == <<"o","l","l","a","m","a">>
S_fallback   == <<"f","a","l","l","b","a","c","k">>

\* ['rm -rf /', 'del /f /s /q', 'format', 'fdisk']
dangerous_commands ==
  << <<"r","m"," ","-","r","f"," ","/">>,
     <<"d","e","l"," ","/","f"," ","/","s"," ","/","q">>,
     <<"f","o","r","m","a","t">>,
     <<"f","d","i","s","k">> >>

L_Command     == <<"C","o","m","m","a","n","d",":">>
L_command     == <<"c","o","m","m","a","n","d",":">>
L_Description == <<"D","e","s","c","r","i","p","t","i","o","n",":">>
L_description == <<"d","e","s","c","r","i","p","t","i","o","n",":">>

\* "<U+26A0><U+FE0F> This command could be destructive. Please review carefully!"
DestructiveNotice ==
  <<"U+26A0","U+FE0F"," ","T","h","i","s"," ","c","o","m","m","a","n","d"," ","c","o","u","l",
    "d"," ","b","e"," ","d","e","s","t","r","u","c","t","i","v","e","."," ","P","l","e","a","s",
    "e"," ","r","e","v","i","e","w"," ","c","a","r","e","f","u","l","l","y","!">>

\* 'Enhanced fallback suggestion - AI service not available'
FallbackWarning ==
  <<"E","n","h","a","n","c","e","d"," ","f","a","l","l","b","a","c","k"," ","s","u","g","g","e",
    "s","t","i","o","n"," ","-"," ","A","I"," ","s","e","r","v","i","c","e"," ","n","o","t"," ",
    "a","v","a","i","l","a","b","l","e">>

\* f'# No specific pattern found for: "{user_request}"', before the request
PlaceholderPrefix ==
  <<"#"," ","N","o"," ","s","p","e","c","i","f","i","c"," ","p","a","t","t","e","r","n"," ","f",
    "o","u","n","d"," ","f","o","r",":"," ","\"">>

\* and after it
PlaceholderSuffix ==
  <<"\"">>

\* 'Try commands like "list services", "disk space", "system info", or "network adapters"'
PlaceholderDescription ==
  <<"T","r","y"," ","c","o","m","m","a","n","d","s"," ","l","i","k","e"," ","\"","l","i","s",
    "t"," ","s","e","r","v","i","c","e","s","\"",","," ","\"","d","i","s","k"," ","s","p","a",
    "c","e","\"",","," ","\"","s","y","s","t","e","m"," ","i","n","f","o","\"",","," ","o","r",
    " ","\"","n","e","t","w","o","r","k"," ","a","d","a","p","t","e","r","s","\"">>

\* 'No matching pattern found - try being more specific'
PlaceholderWarning ==
  <<"N","o"," ","m","a","t","c","h","i","n","g"," ","p","a","t","t","e","r","n"," ","f","o","u",
    "n","d"," ","-"," ","t","r","y"," ","b","e","i","n","g"," ","m","o","r","e"," ","s","p","e",
    "c","i","f","i","c">>

-----------------------------------------------------------------------------
(* ai/command_ai.py: the response parser and the validator *)

\* The dict the parser, the validator and the matcher return.
Suggestion(c, d, s, w) ==
  [t |-> "suggestion", command |-> c, description |-> d, shell |-> s, warning |-> w]

IsSuggestion(x) == x.t = "suggestion"

\* An exception leaving a function.
PyRaise(e) == [t |-> "raise", exc |-> e]

IsRaise(x) == x.t = "raise"

\* for dangerous in dangerous_commands: if dangerous in command_lower
IsDangerous(command) ==
  \E i \in 1..Len(dangerous_commands) : Contains(Lower(command), dangerous_commands[i])

\* _validate_suggestion putting the destructive notice only on a record that
\* has no warning yet, and clearing the warning of one that has.
validate_suggestion_warn_once(suggestion, default_shell) ==
  IF ~IsDict(suggestion) \/ ~HasKey(suggestion, K_command) THEN PyNone
  ELSE LET raw == Get(suggestion, K_command, PyStr(<<>>))
       IN  IF ~IsStr(raw) THEN PyRaise("AttributeError")
           ELSE LET command == Strip(raw.v)
                    given == Get(suggestion, K_warning, PyStr(<<>>))
                    warning == IF IsDangerous(command)
                               THEN IF Truthy(given) THEN PyStr(<<>>)
                                    ELSE PyStr(DestructiveNotice)
                               ELSE given
                IN  IF command # <<>>
                    THEN Suggestion(PyStr(command),
                                    Get(suggestion, K_description, PyStr(<<>>)),
                                    Get(suggestion, K_shell, PyStr(default_shell)),
                                    warning)
                    ELSE PyNone

\* _validate_suggestion without its last line: the record is returned whether
\* or not its command is empty.
validate_suggestion_keep_empty(suggestion, default_shell) ==
  IF ~IsDict(suggestion) \/ ~HasKey(suggestion, K_command) THEN PyNone
  ELSE LET raw == Get(suggestion, K_command, PyStr(<<>>))
       IN  IF ~IsStr(raw) THEN PyRaise("AttributeError")
           ELSE LET command == Strip(raw.v)
                IN  Suggestion(PyStr(command),
                               Get(suggestion, K_description, PyStr(<<>>)),
                               Get(suggestion, K_shell, PyStr(default_shell)),
                               IF IsDangerous(command)
                               THEN PyStr(DestructiveNotice)
                               ELSE Get(suggestion, K_warning, PyStr(<<>>)))

\* _validate_suggestion refusing a destructive command instead of warning.
validate_suggestion_blocking(suggestion, default_shell) ==
  IF ~IsDict(suggestion) \/ ~HasKey(suggestion, K_command) THEN PyNone
  ELSE LET raw == Get(suggestion, K_command, PyStr(<<>>))
       IN  IF ~IsStr(raw) THEN PyRaise("AttributeError")
           ELSE LET command == Strip(raw.v)
                IN  IF command # <<>> /\ ~IsDangerous(command)
                    THEN Suggestion(PyStr(command),
                                    Get(suggestion, K_description, PyStr(<<>>)),
                                    Get(suggestion, K_shell, PyStr(default_shell)),
                                    Get(suggestion, K_warning, PyStr(<<>>)))
                    ELSE PyNone

\* CommandAI._validate_suggestion(suggestion), default_shell being
\* self.settings.default_shell.  A 'command' that is no str has no strip().
validate_suggestion(suggestion, default_shell) ==
  IF ~IsDict(suggestion) \/ ~HasKey(suggestion, K_command) THEN PyNone
  ELSE LET raw == Get(suggestion, K_command, PyStr(<<>>))
       IN  IF ~IsStr(raw) THEN PyRaise("AttributeError")
           ELSE LET command == Strip(raw.v)
                    warning == IF IsDangerous(command)
                               THEN PyStr(DestructiveNotice)
                               ELSE Get(suggestion, K_warning, PyStr(<<>>))
                IN  IF command # <<>>
                    THEN Suggestion(PyStr(command),
                                    Get(suggestion, K_description, PyStr(<<>>)),
                                    Get(suggestion, K_shell, PyStr(default_shell)),
                                    warning)
                    ELSE PyNone

\* One turn of the loop of _parse_text_response over a line; st is the pair
\* of locals [command, description].
TextLine(st, rawline) ==
  LET line == Strip(rawline)
  IN  CASE StartsWith(line, L_Command) \/ StartsWith(line, L_command) ->
             [st EXCEPT !.command = Strip(AfterFirst(line, ":"))]
        [] StartsWith(line, L_Description) \/ StartsWith(line, L_description) ->
             [st EXCEPT !.description = Strip(AfterFirst(line, ":"))]
        [] st.command = <<>> /\ line # <<>> /\ ~StartsWith(line, <<"#">>) ->
             [st EXCEPT !.command = line]
        [] OTHER -> st

RECURSIVE TextLoop(_, _)
\* for line in lines
TextLoop(st, lines) ==
  IF lines = <<>> THEN st ELSE TextLoop(TextLine(st, Head(lines)), Tail(lines))

\* CommandAI._parse_text_response(content)
parse_text_response(content, default_shell) ==
  LET st == TextLoop([command |-> <<>>, description |-> <<>>], Split(content, "\n"))
  IN  IF st.command # <<>>
      THEN Suggestion(PyStr(st.command), PyStr(st.description),
                      PyStr(default_shell), PyStr(<<>>))
      ELSE PyNone

\* _parse_ai_response trying the text of a JSON value that yields no record
\* as lines.
parse_ai_response_fall_through(content, default_shell) ==
  LET decoded == json_loads(content)
      validated == IF decoded.ok THEN validate_suggestion(decoded.val, default_shell)
                   ELSE PyNone
  IN  IF decoded.ok /\ validated # PyNone THEN validated
      ELSE parse_text_response(content, default_shell)

\* CommandAI._parse_ai_response(content): only json.JSONDecodeError is caught,
\* and only json.loads raises it.
parse_ai_response(content, default_shell) ==
  LET decoded == json_loads(content)
  IN  IF decoded.ok THEN validate_suggestion(decoded.val, default_shell)
      ELSE parse_text_response(content, default_shell)

-----------------------------------------------------------------------------
(* ai/command_ai.py: the rule table of _get_fallback_suggestion *)

\* rule 1 (lines 178-182): triggers ('group policy', 'gpo', 'policy update')
\*   command     'gpupdate /force'
\*   description 'Force Group Policy update on local machine'
\*   shell       'powershell'
Rule1 ==
  [patterns |-> << <<"g","r","o","u","p"," ","p","o","l","i","c","y">>,
                   <<"g","p","o">>,
                   <<"p","o","l","i","c","y"," ","u","p","d","a","t","e">> >>,
   command |-> <<"g","p","u","p","d","a","t","e"," ","/","f","o","r","c","e">>,
   description |-> <<"F","o","r","c","e"," ","G","r","o","u","p"," ","P","o","l","i","c","y",
                   " ","u","p","d","a","t","e"," ","o","n"," ","l","o","c","a","l"," ","m","a",
                   "c","h","i","n","e">>,
   shell |-> S_powershell]

\* rule 2 (lines 183-187): triggers ('remote group policy', 'remote gpo')
\*   command     'Invoke-GPUpdate -Computer "ComputerName" -Force'
\*   description 'Force Group Policy update on remote computer'
\*   shell       'powershell'
Rule2 ==
  [patterns |-> << <<"r","e","m","o","t","e"," ","g","r","o","u","p"," ","p","o","l","i","c","y">>,
                   <<"r","e","m","o","t","e"," ","g","p","o">> >>,
   command |-> <<"I","n","v","o","k","e","-","G","P","U","p","d","a","t","e"," ","-","C","o",
               "m","p","u","t","e","r"," ","\"","C","o","m","p","u","t","e","r","N","a","m","e",
               "\""," ","-","F","o","r","c","e">>,
   description |-> <<"F","o","r","c","e"," ","G","r","o","u","p"," ","P","o","l","i","c","y",
                   " ","u","p","d","a","t","e"," ","o","n"," ","r","e","m","o","t","e"," ","c",
                   "o","m","p","u","t","e","r">>,
   shell |-> S_powershell]

\* rule 3 (lines 190-194): triggers ('running services', 'active services', 'list services')
\*   command     'Get-Service | Where-Object {$_.Status -eq "Running"} | Sort-Object Name'
\*   description 'List all running services sorted by name'
\*   shell       'powershell'
Rule3 ==
  [patterns |-> << <<"r","u","n","n","i","n","g"," ","s","e","r","v","i","c","e","s">>,
                   <<"a","c","t","i","v","e"," ","s","e","r","v","i","c","e","s">>,
                   <<"l","i","s","t"," ","s","e","r","v","i","c","e","s">> >>,
   command |-> <<"G","e","t","-","S","e","r","v","i","c","e"," ","|"," ","W","h","e","r","e",
               "-","O","b","j","e","c","t"," ","{","$","_",".","S","t","a","t","u","s"," ","-",
               "e","q"," ","\"","R","u","n","n","i","n","g","\"","}"," ","|"," ","S","o","r",
               "t","-","O","b","j","e","c","t"," ","N","a","m","e">>,
   description |-> <<"L","i","s","t"," ","a","l","l"," ","r","u","n","n","i","n","g"," ","s",
                   "e","r","v","i","c","e","s"," ","s","o","r","t","e","d"," ","b","y"," ","n",
                   "a","m","e">>,
   shell |-> S_powershell]

\* rule 4 (lines 195-199): triggers ('stopped services', 'inactive services')
\*   command     'Get-Service | Where-Object {$_.Status -eq "Stopped"} | Sort-Object Name'
\*   description 'List all stopped services'
\*   shell       'powershell'
Rule4 ==
  [patterns |-> << <<"s","t","o","p","p","e","d"," ","s","e","r","v","i","c","e","s">>,
                   <<"i","n","a","c","t","i","v","e"," ","s","e","r","v","i","c","e","s">> >>,
   command |-> <<"G","e","t","-","S","e","r","v","i","c","e"," ","|"," ","W","h","e","r","e",
               "-","O","b","j","e","c","t"," ","{","$","_",".","S","t","a","t","u","s"," ","-",
               "e","q"," ","\"","S","t","o","p","p","e","d","\"","}"," ","|"," ","S","o","r",
               "t","-","O","b","j","e","c","t"," ","N","a","m","e">>,
   description |-> <<"L","i","s","t"," ","a","l","l"," ","s","t","o","p","p","e","d"," ","s",
                   "e","r","v","i","c","e","s">>,
   shell |-> S_powershell]

\* rule 5 (lines 200-204): triggers ('start service', 'enable service')
\*   command     'Start-Service -Name "ServiceName"'
\*   description 'Start a specific service (replace ServiceName)'
\*   shell       'powershell'
Rule5 ==
  [patterns |-> << <<"s","t","a","r","t"," ","s","e","r","v","i","c","e">>,
                   <<"e","n","a","b","l","e"," ","s","e","r","v","i","c","e">> >>,
   command |-> <<"S","t","a","r","t","-","S","e","r","v","i","c","e"," ","-","N","a","m","e",
               " ","\"","S","e","r","v","i","c","e","N","a","m","e","\"">>,
   description |-> <<"S","t","a","r","t"," ","a"," ","s","p","e","c","i","f","i","c"," ","s",
                   "e","r","v","i","c","e"," ","(","r","e","p","l","a","c","e"," ","S","e","r",
                   "v","i","c","e","N","a","m","e",")">>,
   shell |-> S_powershell]

\* rule 6 (lines 205-209): triggers ('stop service', 'disable service')
\*   command     'Stop-Service -Name "ServiceName"'
\*   description 'Stop a specific service (replace ServiceName)'
\*   shell       'powershell'
Rule6 ==
  [patterns |-> << <<"s","t","o","p"," ","s","e","r","v","i","c","e">>,
                   <<"d","i","s","a","b","l","e"," ","s","e","r","v","i","c","e">> >>,
   command |-> <<"S","t","o","p","-","S","e","r","v","i","c","e"," ","-","N","a","m","e"," ",
               "\"","S","e","r","v","i","c","e","N","a","m","e","\"">>,
   description |-> <<"S","t","o","p"," ","a"," ","s","p","e","c","i","f","i","c"," ","s","e",
                   "r","v","i","c","e"," ","(","r","e","p","l","a","c","e"," ","S","e","r","v",
                   "i","c","e","N","a","m","e",")">>,
   shell |-> S_powershell]

\* rule 7 (lines 212-216): triggers ('disk space', 'storage', 'free space', 'drive space')
\*   command     'Get-WmiObject -Class Win32_LogicalDisk | Select-Object DeviceID,@{Name="Size(GB)";Expression={[math]::Round($_.Size/1GB,2)}},@{Name="FreeSpace(GB)";Expression={[math]::Round($_.FreeSpace/1GB,2)}},@{Name="PercentFree";Expression={[math]::Round(($_.FreeSpace/$_.Size)*100,2)}}'
\*   description 'Show disk space with sizes in GB and percentage free'
\*   shell       'powershell'
Rule7 ==
  [patterns |-> << <<"d","i","s","k"," ","s","p","a","c","e">>,
                   <<"s","t","o","r","a","g","e">>,
                   <<"f","r","e","e"," ","s","p","a","c","e">>,
                   <<"d","r","i","v","e"," ","s","p","a","c","e">> >>,
   command |-> <<"G","e","t","-","W","m","i","O","b","j","e","c","t"," ","-","C","l","a","s",
               "s"," ","W","i","n","3","2","_","L","o","g","i","c","a","l","D","i","s","k"," ",
               "|"," ","S","e","l","e","c","t","-","O","b","j","e","c","t"," ","D","e","v","i",
               "c","e","I","D",",","@","{","N","a","m","e","=","\"","S","i","z","e","(","G","B",
               ")","\"",";","E","x","p","r","e","s","s","i","o","n","=","{","[","m","a","t","h",
               "]",":",":","R","o","u","n","d","(","$","_",".","S","i","z","e","/","1","G","B",
               ",","2",")","}","}",",","@","{","N","a","m","e","=","\"","F","r","e","e","S","p",
               "a","c","e","(","G","B",")","\"",";","E","x","p","r","e","s","s","i","o","n","=",
               "{","[","m","a","t","h","]",":",":","R","o","u","n","d","(","$","_",".","F","r",
               "e","e","S","p","a","c","e","/","1","G","B",",","2",")","}","}",",","@","{","N",
               "a","m","e","=","\"","P","e","r","c","e","n","t","F","r","e","e","\"",";","E",
               "x","p","r","e","s","s","i","o","n","=","{","[","m","a","t","h","]",":",":","R",
               "o","u","n","d","(","(","$","_",".","F","r","e","e","S","p","a","c","e","/","$",
               "_",".","S","i","z","e",")","*","1","0","0",",","2",")","}","}">>,
   description |-> <<"S","h","o","w"," ","d","i","s","k"," ","s","p","a","c","e"," ","w","i",
                   "t","h"," ","s","i","z","e","s"," ","i","n"," ","G","B"," ","a","n","d"," ",
                   "p","e","r","c","e","n","t","a","g","e"," ","f","r","e","e">>,
   shell |-> S_powershell]

\* rule 8 (lines 217-221): triggers ('c drive', 'c: drive', 'system drive')
\*   command     'Get-WmiObject -Class Win32_LogicalDisk -Filter "DeviceID=\'C:\'" | Select-Object Size,FreeSpace'
\*   description 'Check C: drive space specifically'
\*   shell       'powershell'
Rule8 ==
  [patterns |-> << <<"c"," ","d","r","i","v","e">>,
                   <<"c",":"," ","d","r","i","v","e">>,
                   <<"s","y","s","t","e","m"," ","d","r","i","v","e">> >>,
   command |-> <<"G","e","t","-","W","m","i","O","b","j","e","c","t"," ","-","C","l","a","s",
               "s"," ","W","i","n","3","2","_","L","o","g","i","c","a","l","D","i","s","k"," ",
               "-","F","i","l","t","e","r"," ","\"","D","e","v","i","c","e","I","D","=","'","C",
               ":","'","\""," ","|"," ","S","e","l","e","c","t","-","O","b","j","e","c","t"," ",
               "S","i","z","e",",","F","r","e","e","S","p","a","c","e">>,
   description |-> <<"C","h","e","c","k"," ","C",":"," ","d","r","i","v","e"," ","s","p","a",
                   "c","e"," ","s","p","e","c","i","f","i","c","a","l","l","y">>,
   shell |-> S_powershell]

\* rule 9 (lines 224-228): triggers ('running processes', 'process list', 'task list')
\*   command     'Get-Process | Sort-Object CPU -Descending | Select-Object -First 20 Name,CPU,WorkingSet,Id'
\*   description 'List top 20 processes by CPU usage'
\*   shell       'powershell'
Rule9 ==
  [patterns |-> << <<"r","u","n","n","i","n","g"," ","p","r","o","c","e","s","s","e","s">>,
                   <<"p","r","o","c","e","s","s"," ","l","i","s","t">>,
                   <<"t","a","s","k"," ","l","i","s","t">> >>,
   command |-> <<"G","e","t","-","P","r","o","c","e","s","s"," ","|"," ","S","o","r","t","-",
               "O","b","j","e","c","t"," ","C","P","U"," ","-","D","e","s","c","e","n","d","i",
               "n","g"," ","|"," ","S","e","l","e","c","t","-","O","b","j","e","c","t"," ","-",
               "F","i","r","s","t"," ","2","0"," ","N","a","m","e",",","C","P","U",",","W","o",
               "r","k","i","n","g","S","e","t",",","I","d">>,
   description |-> <<"L","i","s","t"," ","t","o","p"," ","2","0"," ","p","r","o","c","e","s",
                   "s","e","s"," ","b","y"," ","C","P","U"," ","u","s","a","g","e">>,
   shell |-> S_powershell]

\* rule 10 (lines 229-233): triggers ('kill process', 'stop process', 'end process')
\*   command     'Stop-Process -Name "ProcessName" -Force'
\*   description 'Kill a process by name (replace ProcessName)'
\*   shell       'powershell'
Rule10 ==
  [patterns |-> << <<"k","i","l","l"," ","p","r","o","c","e","s","s">>,
                   <<"s","t","o","p"," ","p","r","o","c","e","s","s">>,
                   <<"e","n","d"," ","p","r","o","c","e","s","s">> >>,
   command |-> <<"S","t","o","p","-","P","r","o","c","e","s","s"," ","-","N","a","m","e"," ",
               "\"","P","r","o","c","e","s","s","N","a","m","e","\""," ","-","F","o","r","c",
               "e">>,
   description |-> <<"K","i","l","l"," ","a"," ","p","r","o","c","e","s","s"," ","b","y"," ",
                   "n","a","m","e"," ","(","r","e","p","l","a","c","e"," ","P","r","o","c","e",
                   "s","s","N","a","m","e",")">>,
   shell |-> S_powershell]

\* rule 11 (lines 236-240): triggers ('network', 'ip config', 'network adapter', 'network interface')
\*   command     'Get-NetAdapter | Where-Object {$_.Status -eq "Up"} | Select-Object Name,InterfaceDescription,LinkSpeed'
\*   description 'List active network adapters'
\*   shell       'powershell'
Rule11 ==
  [patterns |-> << <<"n","e","t","w","o","r","k">>,
                   <<"i","p"," ","c","o","n","f","i","g">>,
                   <<"n","e","t","w","o","r","k"," ","a","d","a","p","t","e","r">>,
                   <<"n","e","t","w","o","r","k"," ","i","n","t","e","r","f","a","c","e">> >>,
   command |-> <<"G","e","t","-","N","e","t","A","d","a","p","t","e","r"," ","|"," ","W","h",
               "e","r","e","-","O","b","j","e","c","t"," ","{","$","_",".","S","t","a","t","u",
               "s"," ","-","e","q"," ","\"","U","p","\"","}"," ","|"," ","S","e","l","e","c",
               "t","-","O","b","j","e","c","t"," ","N","a","m","e",",","I","n","t","e","r","f",
               "a","c","e","D","e","s","c","r","i","p","t","i","o","n",",","L","i","n","k","S",
               "p","e","e","d">>,
   description |-> <<"L","i","s","t"," ","a","c","t","i","v","e"," ","n","e","t","w","o","r",
                   "k"," ","a","d","a","p","t","e","r","s">>,
   shell |-> S_powershell]

\* rule 12 (lines 241-245): triggers ('ip address', 'ip info')
\*   command     'Get-NetIPAddress | Where-Object {$_.AddressFamily -eq "IPv4" -and $_.IPAddress -ne "127.0.0.1"}'
\*   description 'Show IPv4 addresses (excluding localhost)'
\*   shell       'powershell'
Rule12 ==
  [patterns |-> << <<"i","p"," ","a","d","d","r","e","s","s">>,
                   <<"i","p"," ","i","n","f","o">> >>,
   command |-> <<"G","e","t","-","N","e","t","I","P","A","d","d","r","e","s","s"," ","|"," ",
               "W","h","e","r","e","-","O","b","j","e","c","t"," ","{","$","_",".","A","d","d",
               "r","e","s","s","F","a","m","i","l","y"," ","-","e","q"," ","\"","I","P","v","4",
               "\""," ","-","a","n","d"," ","$","_",".","I","P","A","d","d","r","e","s","s"," ",
               "-","n","e"," ","\"","1","2","7",".","0",".","0",".","1","\"","}">>,
   description |-> <<"S","h","o","w"," ","I","P","v","4"," ","a","d","d","r","e","s","s","e",
                   "s"," ","(","e","x","c","l","u","d","i","n","g"," ","l","o","c","a","l","h",
                   "o","s","t",")">>,
   shell |-> S_powershell]

\* rule 13 (lines 246-250): triggers ('ping', 'test connection')
\*   command     'Test-NetConnection -ComputerName "hostname" -Port 80'
\*   description 'Test network connectivity (replace hostname)'
\*   shell       'powershell'
Rule13 ==
  [patterns |-> << <<"p","i","n","g">>,
                   <<"t","e","s","t"," ","c","o","n","n","e","c","t","i","o","n">> >>,
   command |-> <<"T","e","s","t","-","N","e","t","C","o","n","n","e","c","t","i","o","n"," ",
               "-","C","o","m","p","u","t","e","r","N","a","m","e"," ","\"","h","o","s","t","n",
               "a","m","e","\""," ","-","P","o","r","t"," ","8","0">>,
   description |-> <<"T","e","s","t"," ","n","e","t","w","o","r","k"," ","c","o","n","n","e",
                   "c","t","i","v","i","t","y"," ","(","r","e","p","l","a","c","e"," ","h","o",
                   "s","t","n","a","m","e",")">>,
   shell |-> S_powershell]

\* rule 14 (lines 253-257): triggers ('system info', 'computer info', 'system details')
\*   command     'Get-ComputerInfo | Select-Object WindowsProductName,WindowsVersion,TotalPhysicalMemory,CsProcessors'
\*   description 'Display basic system information'
\*   shell       'powershell'
Rule14 ==
  [patterns |-> << <<"s","y","s","t","e","m"," ","i","n","f","o">>,
                   <<"c","o","m","p","u","t","e","r"," ","i","n","f","o">>,
                   <<"s","y","s","t","e","m"," ","d","e","t","a","i","l","s">> >>,
   command |-> <<"G","e","t","-","C","o","m","p","u","t","e","r","I","n","f","o"," ","|"," ",
               "S","e","l","e","c","t","-","O","b","j","e","c","t"," ","W","i","n","d","o","w",
               "s","P","r","o","d","u","c","t","N","a","m","e",",","W","i","n","d","o","w","s",
               "V","e","r","s","i","o","n",",","T","o","t","a","l","P","h","y","s","i","c","a",
               "l","M","e","m","o","r","y",",","C","s","P","r","o","c","e","s","s","o","r",
               "s">>,
   description |-> <<"D","i","s","p","l","a","y"," ","b","a","s","i","c"," ","s","y","s","t",
                   "e","m"," ","i","n","f","o","r","m","a","t","i","o","n">>,
   shell |-> S_powershell]

\* rule 15 (lines 258-262): triggers ('uptime', 'system uptime')
\*   command     '(Get-Date) - (Get-CimInstance Win32_OperatingSystem).LastBootUpTime'
\*   description 'Show system uptime'
\*   shell       'powershell'
Rule15 ==
  [patterns |-> << <<"u","p","t","i","m","e">>,
                   <<"s","y","s","t","e","m"," ","u","p","t","i","m","e">> >>,
   command |-> <<"(","G","e","t","-","D","a","t","e",")"," ","-"," ","(","G","e","t","-","C",
               "i","m","I","n","s","t","a","n","c","e"," ","W","i","n","3","2","_","O","p","e",
               "r","a","t","i","n","g","S","y","s","t","e","m",")",".","L","a","s","t","B","o",
               "o","t","U","p","T","i","m","e">>,
   description |-> <<"S","h","o","w"," ","s","y","s","t","e","m"," ","u","p","t","i","m","e">>,
   shell |-> S_powershell]

\* rule 16 (lines 265-269): triggers ('event log', 'system events', 'error log')
\*   command     'Get-EventLog -LogName System -Newest 20 | Where-Object {$_.EntryType -eq "Error"}'
\*   description 'Show latest 20 system errors'
\*   shell       'powershell'
Rule16 ==
  [patterns |-> << <<"e","v","e","n","t"," ","l","o","g">>,
                   <<"s","y","s","t","e","m"," ","e","v","e","n","t","s">>,
                   <<"e","r","r","o","r"," ","l","o","g">> >>,
   command |-> <<"G","e","t","-","E","v","e","n","t","L","o","g"," ","-","L","o","g","N","a",
               "m","e"," ","S","y","s","t","e","m"," ","-","N","e","w","e","s","t"," ","2","0",
               " ","|"," ","W","h","e","r","e","-","O","b","j","e","c","t"," ","{","$","_",".",
               "E","n","t","r","y","T","y","p","e"," ","-","e","q"," ","\"","E","r","r","o","r",
               "\"","}">>,
   description |-> <<"S","h","o","w"," ","l","a","t","e","s","t"," ","2","0"," ","s","y","s",
                   "t","e","m"," ","e","r","r","o","r","s">>,
   shell |-> S_powershell]

\* rule 17 (lines 270-274): triggers ('application log', 'app events')
\*   command     'Get-EventLog -LogName Application -Newest 20'
\*   description 'Show latest 20 application events'
\*   shell       'powershell'
Rule17 ==
  [patterns |-> << <<"a","p","p","l","i","c","a","t","i","o","n"," ","l","o","g">>,
                   <<"a","p","p"," ","e","v","e","n","t","s">> >>,
   command |-> <<"G","e","t","-","E","v","e","n","t","L","o","g"," ","-","L","o","g","N","a",
               "m","e"," ","A","p","p","l","i","c","a","t","i","o","n"," ","-","N","e","w","e",
               "s","t"," ","2","0">>,
   description |-> <<"S","h","o","w"," ","l","a","t","e","s","t"," ","2","0"," ","a","p","p",
                   "l","i","c","a","t","i","o","n"," ","e","v","e","n","t","s">>,
   shell |-> S_powershell]

\* rule 18 (lines 277-281): triggers ('create directory', 'new folder', 'mkdir', 'make directory')
\*   command     'New-Item -ItemType Directory -Name "NewFolder"'
\*   description 'Create a new directory (replace NewFolder with desired name)'
\*   shell       'powershell'
Rule18 ==
  [patterns |-> << <<"c","r","e","a","t","e"," ","d","i","r","e","c","t","o","r","y">>,
                   <<"n","e","w"," ","f","o","l","d","e","r">>,
                   <<"m","k","d","i","r">>,
                   <<"m","a","k","e"," ","d","i","r","e","c","t","o","r","y">> >>,
   command |-> <<"N","e","w","-","I","t","e","m"," ","-","I","t","e","m","T","y","p","e"," ",
               "D","i","r","e","c","t","o","r","y"," ","-","N","a","m","e"," ","\"","N","e","w",
               "F","o","l","d","e","r","\"">>,
   description |-> <<"C","r","e","a","t","e"," ","a"," ","n","e","w"," ","d","i","r","e","c",
                   "t","o","r","y"," ","(","r","e","p","l","a","c","e"," ","N","e","w","F","o",
                   "l","d","e","r"," ","w","i","t","h"," ","d","e","s","i","r","e","d"," ","n",
                   "a","m","e",")">>,
   shell |-> S_powershell]

\* rule 19 (lines 282-286): triggers ('list files', 'directory listing', 'ls', 'dir')
\*   command     'Get-ChildItem | Sort-Object Name'
\*   description 'List files and folders in current directory'
\*   shell       'powershell'
Rule19 ==
  [patterns |-> << <<"l","i","s","t"," ","f","i","l","e","s">>,
                   <<"d","i","r","e","c","t","o","r","y"," ","l","i","s","t","i","n","g">>,
                   <<"l","s">>,
                   <<"d","i","r">> >>,
   command |-> <<"G","e","t","-","C","h","i","l","d","I","t","e","m"," ","|"," ","S","o","r",
               "t","-","O","b","j","e","c","t"," ","N","a","m","e">>,
   description |-> <<"L","i","s","t"," ","f","i","l","e","s"," ","a","n","d"," ","f","o","l",
                   "d","e","r","s"," ","i","n"," ","c","u","r","r","e","n","t"," ","d","i","r",
                   "e","c","t","o","r","y">>,
   shell |-> S_powershell]

\* rule 20 (lines 287-291): triggers ('find files', 'search files')
\*   command     'Get-ChildItem -Path . -Recurse -Filter "*.txt" | Select-Object Name,FullName,Length'
\*   description 'Find all .txt files recursively (change *.txt for other types)'
\*   shell       'powershell'
Rule20 ==
  [patterns |-> << <<"f","i","n","d"," ","f","i","l","e","s">>,
                   <<"s","e","a","r","c","h"," ","f","i","l","e","s">> >>,
   command |-> <<"G","e","t","-","C","h","i","l","d","I","t","e","m"," ","-","P","a","t","h",
               " ","."," ","-","R","e","c","u","r","s","e"," ","-","F","i","l","t","e","r"," ",
               "\"","*",".","t","x","t","\""," ","|"," ","S","e","l","e","c","t","-","O","b",
               "j","e","c","t"," ","N","a","m","e",",","F","u","l","l","N","a","m","e",",","L",
               "e","n","g","t","h">>,
   description |-> <<"F","i","n","d"," ","a","l","l"," ",".","t","x","t"," ","f","i","l","e",
                   "s"," ","r","e","c","u","r","s","i","v","e","l","y"," ","(","c","h","a","n",
                   "g","e"," ","*",".","t","x","t"," ","f","o","r"," ","o","t","h","e","r"," ",
                   "t","y","p","e","s",")">>,
   shell |-> S_powershell]

\* rule 21 (lines 292-296): triggers ('copy files', 'copy')
\*   command     'Copy-Item -Path "source" -Destination "destination" -Recurse'
\*   description 'Copy files/folders recursively'
\*   shell       'powershell'
Rule21 ==
  [patterns |-> << <<"c","o","p","y"," ","f","i","l","e","s">>,
                   <<"c","o","p","y">> >>,
   command |-> <<"C","o","p","y","-","I","t","e","m"," ","-","P","a","t","h"," ","\"","s","o",
               "u","r","c","e","\""," ","-","D","e","s","t","i","n","a","t","i","o","n"," ",
               "\"","d","e","s","t","i","n","a","t","i","o","n","\""," ","-","R","e","c","u",
               "r","s","e">>,
   description |-> <<"C","o","p","y"," ","f","i","l","e","s","/","f","o","l","d","e","r","s",
                   " ","r","e","c","u","r","s","i","v","e","l","y">>,
   shell |-> S_powershell]

\* rule 22 (lines 299-303): triggers ('install package', 'pip install', 'python package')
\*   command     'pip install requests'
\*   description 'Install a Python package (replace requests with package name)'
\*   shell       'python'
Rule22 ==
  [patterns |-> << <<"i","n","s","t","a","l","l"," ","p","a","c","k","a","g","e">>,
                   <<"p","i","p"," ","i","n","s","t","a","l","l">>,
                   <<"p","y","t","h","o","n"," ","p","a","c","k","a","g","e">> >>,
   command |-> <<"p","i","p"," ","i","n","s","t","a","l","l"," ","r","e","q","u","e","s","t",
               "s">>,
   description |-> <<"I","n","s","t","a","l","l"," ","a"," ","P","y","t","h","o","n"," ","p",
                   "a","c","k","a","g","e"," ","(","r","e","p","l","a","c","e"," ","r","e","q",
                   "u","e","s","t","s"," ","w","i","t","h"," ","p","a","c","k","a","g","e"," ",
                   "n","a","m","e",")">>,
   shell |-> S_python]

\* rule 23 (lines 304-308): triggers ('list packages', 'pip list', 'installed packages')
\*   command     'pip list'
\*   description 'List all installed Python packages'
\*   shell       'python'
Rule23 ==
  [patterns |-> << <<"l","i","s","t"," ","p","a","c","k","a","g","e","s">>,
                   <<"p","i","p"," ","l","i","s","t">>,
                   <<"i","n","s","t","a","l","l","e","d"," ","p","a","c","k","a","g","e","s">> >>,
   command |-> <<"p","i","p"," ","l","i","s","t">>,
   description |-> <<"L","i","s","t"," ","a","l","l"," ","i","n","s","t","a","l","l","e","d",
                   " ","P","y","t","h","o","n"," ","p","a","c","k","a","g","e","s">>,
   shell |-> S_python]

\* rule 24 (lines 309-313): triggers ('web scraping', 'scrape web')
\*   command     'pip install requests beautifulsoup4 lxml'
\*   description 'Install popular web scraping packages'
\*   shell       'python'
Rule24 ==
  [patterns |-> << <<"w","e","b"," ","s","c","r","a","p","i","n","g">>,
                   <<"s","c","r","a","p","e"," ","w","e","b">> >>,
   command |-> <<"p","i","p"," ","i","n","s","t","a","l","l"," ","r","e","q","u","e","s","t",
               "s"," ","b","e","a","u","t","i","f","u","l","s","o","u","p","4"," ","l","x","m",
               "l">>,
   description |-> <<"I","n","s","t","a","l","l"," ","p","o","p","u","l","a","r"," ","w","e",
                   "b"," ","s","c","r","a","p","i","n","g"," ","p","a","c","k","a","g","e",
                   "s">>,
   shell |-> S_python]

\* rule 25 (lines 314-318): triggers ('data analysis', 'data science')
\*   command     'pip install pandas numpy matplotlib seaborn'
\*   description 'Install data analysis packages'
\*   shell       'python'
Rule25 ==
  [patterns |-> << <<"d","a","t","a"," ","a","n","a","l","y","s","i","s">>,
                   <<"d","a","t","a"," ","s","c","i","e","n","c","e">> >>,
   command |-> <<"p","i","p"," ","i","n","s","t","a","l","l"," ","p","a","n","d","a","s"," ",
               "n","u","m","p","y"," ","m","a","t","p","l","o","t","l","i","b"," ","s","e","a",
               "b","o","r","n">>,
   description |-> <<"I","n","s","t","a","l","l"," ","d","a","t","a"," ","a","n","a","l","y",
                   "s","i","s"," ","p","a","c","k","a","g","e","s">>,
   shell |-> S_python]

\* rule 26 (lines 321-325): triggers ('windows features', 'optional features')
\*   command     'Get-WindowsOptionalFeature -Online | Where-Object {$_.State -eq "Enabled"}'
\*   description 'List enabled Windows optional features'
\*   shell       'powershell'
Rule26 ==
  [patterns |-> << <<"w","i","n","d","o","w","s"," ","f","e","a","t","u","r","e","s">>,
                   <<"o","p","t","i","o","n","a","l"," ","f","e","a","t","u","r","e","s">> >>,
   command |-> <<"G","e","t","-","W","i","n","d","o","w","s","O","p","t","i","o","n","a","l",
               "F","e","a","t","u","r","e"," ","-","O","n","l","i","n","e"," ","|"," ","W","h",
               "e","r","e","-","O","b","j","e","c","t"," ","{","$","_",".","S","t","a","t","e",
               " ","-","e","q"," ","\"","E","n","a","b","l","e","d","\"","}">>,
   description |-> <<"L","i","s","t"," ","e","n","a","b","l","e","d"," ","W","i","n","d","o",
                   "w","s"," ","o","p","t","i","o","n","a","l"," ","f","e","a","t","u","r","e",
                   "s">>,
   shell |-> S_powershell]

\* rule 27 (lines 326-330): triggers ('installed programs', 'software list')
\*   command     'Get-WmiObject -Class Win32_Product | Select-Object Name,Version | Sort-Object Name'
\*   description 'List installed programs'
\*   shell       'powershell'
Rule27 ==
  [patterns |-> << <<"i","n","s","t","a","l","l","e","d"," ","p","r","o","g","r","a","m","s">>,
                   <<"s","o","f","t","w","a","r","e"," ","l","i","s","t">> >>,
   command |-> <<"G","e","t","-","W","m","i","O","b","j","e","c","t"," ","-","C","l","a","s",
               "s"," ","W","i","n","3","2","_","P","r","o","d","u","c","t"," ","|"," ","S","e",
               "l","e","c","t","-","O","b","j","e","c","t"," ","N","a","m","e",",","V","e","r",
               "s","i","o","n"," ","|"," ","S","o","r","t","-","O","b","j","e","c","t"," ","N",
               "a","m","e">>,
   description |-> <<"L","i","s","t"," ","i","n","s","t","a","l","l","e","d"," ","p","r","o",
                   "g","r","a","m","s">>,
   shell |-> S_powershell]

\* The rule table in insertion order, the order dict.items() iterates in.
suggestions ==
  << Rule1, Rule2, Rule3, Rule4, Rule5, Rule6, Rule7,
     Rule8, Rule9, Rule10, Rule11, Rule12, Rule13, Rule14,
     Rule15, Rule16, Rule17, Rule18, Rule19, Rule20, Rule21,
     Rule22, Rule23, Rule24, Rule25, Rule26, Rule27 >>

-----------------------------------------------------------------------------
(* ai/command_ai.py: the fallback matcher *)

\* for pattern in patterns: if pattern in user_lower: score += len(pattern)
\* (score[k] is the local after the first k patterns)
PatternScore(patterns, user_lower) ==
  LET score[k \in 0..Len(patterns)] ==
        IF k = 0 THEN 0
        ELSE score[k - 1]
             + (IF Contains(user_lower, patterns[k]) THEN Len(patterns[k]) ELSE 0)
  IN  score[Len(patterns)]

\* if score >= best_score
Better_or_equal(score, best_score) == score >= best_score

\* if score > best_score
Better(score, best_score) == score > best_score

\* One turn of the loop over suggestions.items(), for rule i: the locals
\* best_match (the index of the rule kept, 0 for None) and best_score after it.
MatchStep(best, i, score) ==
  IF Better(score, best.best_score)
  THEN [best_match |-> i, best_score |-> score]
  ELSE best

\* for patterns, suggestion in suggestions.items(): best_match and
\* best_score after the loop (best[i] is the locals after the first i rules)
BestMatch(user_request) ==
  LET user_lower == Lower(user_request)
      best[i \in 0..Len(suggestions)] ==
        IF i = 0 THEN [best_match |-> 0, best_score |-> 0]
        ELSE MatchStep(best[i - 1], i, PatternScore(suggestions[i].patterns, user_lower))
  IN  best[Len(suggestions)]

\* _get_fallback_suggestion writing user_lower into the placeholder.
get_fallback_suggestion_lowered(user_request) ==
  LET best == BestMatch(user_request)
  IN  IF best.best_match # 0
      THEN Suggestion(PyStr(suggestions[best.best_match].command),
                      PyStr(suggestions[best.best_match].description),
                      PyStr(suggestions[best.best_match].shell),
                      PyStr(FallbackWarning))
      ELSE Suggestion(PyStr(PlaceholderPrefix \o Lower(user_request) \o PlaceholderSuffix),
                      PyStr(PlaceholderDescription),
                      PyStr(S_powershell),
                      PyStr(PlaceholderWarning))

\* _get_fallback_suggestion giving a matched rule the shell of the settings.
get_fallback_suggestion_default_shell(user_request) ==
  LET best == BestMatch(user_request)
  IN  IF best.best_match # 0
      THEN Suggestion(PyStr(suggestions[best.best_match].command),
                      PyStr(suggestions[best.best_match].description),
                      PyStr(settings.default_shell),
                      PyStr(FallbackWarning))
      ELSE Suggestion(PyStr(PlaceholderPrefix \o user_request \o PlaceholderSuffix),
                      PyStr(PlaceholderDescription),
                      PyStr(S_powershell),
                      PyStr(PlaceholderWarning))

\* CommandAI._get_fallback_suggestion(user_request)
get_fallback_suggestion(user_request) ==
  LET best == BestMatch(user_request)
  IN  IF best.best_match # 0
      THEN Suggestion(PyStr(suggestions[best.best_match].command),
                      PyStr(suggestions[best.best_match].description),
                      PyStr(suggestions[best.best_match].shell),
                      PyStr(FallbackWarning))
      ELSE Suggestion(PyStr(PlaceholderPrefix \o user_request \o PlaceholderSuffix),
                      PyStr(PlaceholderDescription),
                      PyStr(S_powershell),
                      PyStr(PlaceholderWarning))

-----------------------------------------------------------------------------
(* config/settings.py *)

\* os.getenv(name, default): a variable of the environment is PyNone (not
\* set) or a str.
getenv(value, default) == IF value = PyNone THEN default ELSE value

valid_providers == {S_openai, S_gemini, S_ollama, S_fallback}

valid_shells == {S_powershell, S_python}

\* Settings() keeping the values of the environment as they are given.
NewSettings_as_given(env) ==
  [ai_provider    |-> getenv(env.AI_PROVIDER, PyStr(S_gemini)).v,
   openai_api_key |-> getenv(env.OPENAI_API_KEY, PyNone),
   gemini_api_key |-> getenv(env.GEMINI_API_KEY, PyNone),
   default_shell  |-> getenv(env.DEFAULT_SHELL, PyStr(S_powershell)).v]

\* Settings(): __post_init__ reads the environment, _validate replaces what
\* is not valid.
NewSettings(env) ==
  LET provider == Lower(getenv(env.AI_PROVIDER, PyStr(S_gemini)).v)
      shell    == Lower(getenv(env.DEFAULT_SHELL, PyStr(S_powershell)).v)
  IN  [ai_provider    |-> IF provider \in valid_providers THEN provider ELSE S_fallback,
       openai_api_key |-> getenv(env.OPENAI_API_KEY, PyNone),
       gemini_api_key |-> getenv(env.GEMINI_API_KEY, PyNone),
       default_shell  |-> IF shell \in valid_shells THEN shell ELSE S_powershell]

-----------------------------------------------------------------------------
(* The environments, requests and backend answers the model draws from *)

E_OpenAI == PyStr(<<"O","p","e","n","A","I">>)
E_claude == PyStr(<<"c","l","a","u","d","e">>)
E_Python == PyStr(<<"P","y","t","h","o","n">>)
E_bash   == PyStr(<<"b","a","s","h">>)
E_sk     == PyStr(<<"s","k","-","1">>)
E_gk     == PyStr(<<"g","-","1">>)

Env(provider, openai_key, gemini_key, shell) ==
  [AI_PROVIDER |-> provider, OPENAI_API_KEY |-> openai_key,
   GEMINI_API_KEY |-> gemini_key, DEFAULT_SHELL |-> shell]

\* Every provider value (not set, valid in another letter case, not valid),
\* with and without the key it needs, under every kind of shell value.
Environments ==
  { Env(PyNone,           PyNone,       PyNone, PyNone),
    Env(PyNone,           PyNone,       E_gk,   E_bash),
    Env(E_OpenAI,         E_sk,         PyNone, PyNone),
    Env(E_OpenAI,         E_sk,         E_gk,   E_Python),
    Env(E_OpenAI,         PyStr(<<>>),  E_gk,   PyNone),
    Env(E_OpenAI,         PyNone,       PyNone, E_Python),
    Env(PyStr(S_gemini),  E_sk,         E_gk,   E_Python),
    Env(PyStr(S_gemini),  E_sk,         PyNone, PyNone),
    Env(PyStr(S_ollama),  E_sk,         E_gk,   PyNone),
    Env(PyStr(S_fallback), E_sk,        E_gk,   E_Python),
    Env(E_claude,         E_sk,         E_gk,   E_bash) }

\* list all running services
R_services ==
  <<"l","i","s","t"," ","a","l","l"," ","r","u","n","n","i","n","g"," ","s","e","r","v","i","c",
    "e","s">>

\* command for remote group policy update
R_remote ==
  <<"c","o","m","m","a","n","d"," ","f","o","r"," ","r","e","m","o","t","e"," ","g","r","o","u",
    "p"," ","p","o","l","i","c","y"," ","u","p","d","a","t","e">>

\* list logged on users
R_users ==
  <<"l","i","s","t"," ","l","o","g","g","e","d"," ","o","n"," ","u","s","e","r","s">>

\* copy ping
R_tie ==
  <<"c","o","p","y"," ","p","i","n","g">>

\* LIST SERVICES
R_upper ==
  <<"L","I","S","T"," ","S","E","R","V","I","C","E","S">>

\* Format Disk
R_format ==
  <<"F","o","r","m","a","t"," ","D","i","s","k">>

Requests ==
  {R_services, R_remote, R_users, R_tie, R_upper, R_format}

\* {"command": "Get-Service", "description": "List services", "shell": "powershell", "warning": ""}
T_full ==
  <<"{","\"","c","o","m","m","a","n","d","\"",":"," ","\"","G","e","t","-","S","e","r","v","i",
    "c","e","\"",","," ","\"","d","e","s","c","r","i","p","t","i","o","n","\"",":"," ","\"","L",
    "i","s","t"," ","s","e","r","v","i","c","e","s","\"",","," ","\"","s","h","e","l","l",
    "\"",":"," ","\"","p","o","w","e","r","s","h","e","l","l","\"",","," ","\"","w","a","r","n",
    "i","n","g","\"",":"," ","\"","\"","}">>

\* {"command": "", "description": "x"}
T_empty_cmd ==
  <<"{","\"","c","o","m","m","a","n","d","\"",":"," ","\"","\"",","," ","\"","d","e","s","c",
    "r","i","p","t","i","o","n","\"",":"," ","\"","x","\"","}">>

\* {"command": "  \t"}
T_blank_cmd ==
  <<"{","\"","c","o","m","m","a","n","d","\"",":"," ","\""," "," ","\\","t","\"","}">>

\* {"description": "x"}
T_no_cmd ==
  <<"{","\"","d","e","s","c","r","i","p","t","i","o","n","\"",":"," ","\"","x","\"","}">>

\* {"command": "format c:", "description": "Format the drive"}
T_format_json ==
  <<"{","\"","c","o","m","m","a","n","d","\"",":"," ","\"","f","o","r","m","a","t"," ","c",":",
    "\"",","," ","\"","d","e","s","c","r","i","p","t","i","o","n","\"",":"," ","\"","F","o","r",
    "m","a","t"," ","t","h","e"," ","d","r","i","v","e","\"","}">>

\*  {"command": "  pip list ", "shell": "python", "warning": "check first"}\n
T_untrimmed ==
  <<" ","{","\"","c","o","m","m","a","n","d","\"",":"," ","\""," "," ","p","i","p"," ","l","i",
    "s","t"," ","\"",","," ","\"","s","h","e","l","l","\"",":"," ","\"","p","y","t","h","o","n",
    "\"",","," ","\"","w","a","r","n","i","n","g","\"",":"," ","\"","c","h","e","c","k"," ","f",
    "i","r","s","t","\"","}","\n">>

\* {"command": 5}
T_num_cmd ==
  <<"{","\"","c","o","m","m","a","n","d","\"",":"," ","5","}">>

\* {"command": null, "description": "x"}
T_null_cmd ==
  <<"{","\"","c","o","m","m","a","n","d","\"",":"," ","n","u","l","l",","," ","\"","d","e","s",
    "c","r","i","p","t","i","o","n","\"",":"," ","\"","x","\"","}">>

\* [1, 2]
T_array ==
  <<"[","1",","," ","2","]">>

\* "ls"
T_string ==
  <<"\"","l","s","\"">>

\* {"command": "RM -RF /", "warning": "careful"}
T_upper_rm ==
  <<"{","\"","c","o","m","m","a","n","d","\"",":"," ","\"","R","M"," ","-","R","F"," ","/",
    "\"",","," ","\"","w","a","r","n","i","n","g","\"",":"," ","\"","c","a","r","e","f","u","l",
    "\"","}">>

\* {"command": "echo \"hi\"", "description": 7, "shell": "bash"}
T_bash ==
  <<"{","\"","c","o","m","m","a","n","d","\"",":"," ","\"","e","c","h","o"," ","\\","\"","h",
    "i","\\","\"","\"",","," ","\"","d","e","s","c","r","i","p","t","i","o","n","\"",":"," ",
    "7",","," ","\"","s","h","e","l","l","\"",":"," ","\"","b","a","s","h","\"","}">>

\* {"command": "dir", "command": ""}
T_twice ==
  <<"{","\"","c","o","m","m","a","n","d","\"",":"," ","\"","d","i","r","\"",","," ","\"","c",
    "o","m","m","a","n","d","\"",":"," ","\"","\"","}">>

\* Command: Get-Process\nDescription: List processes
T_labels ==
  <<"C","o","m","m","a","n","d",":"," ","G","e","t","-","P","r","o","c","e","s","s","\n","D",
    "e","s","c","r","i","p","t","i","o","n",":"," ","L","i","s","t"," ","p","r","o","c","e","s",
    "s","e","s">>

\* COMMAND: dir
T_upper_label ==
  <<"C","O","M","M","A","N","D",":"," ","d","i","r">>

\* # nothing to suggest\n
T_comment ==
  <<"#"," ","n","o","t","h","i","n","g"," ","t","o"," ","s","u","g","g","e","s","t","\n">>

\* 
T_nothing ==
  <<>>

\* Command: format c:
T_format_text ==
  <<"C","o","m","m","a","n","d",":"," ","f","o","r","m","a","t"," ","c",":">>

\* Get-Date\ncommand: dir
T_unlabeled ==
  <<"G","e","t","-","D","a","t","e","\n","c","o","m","m","a","n","d",":"," ","d","i","r">>

\* Command:\n  ls  \nGet-Date
T_empty_label ==
  <<"C","o","m","m","a","n","d",":","\n"," "," ","l","s"," "," ","\n","G","e","t","-","D","a",
    "t","e">>

\* fdisk /mbr\ndescription: rewrite the boot record
T_fdisk_text ==
  <<"f","d","i","s","k"," ","/","m","b","r","\n","d","e","s","c","r","i","p","t","i","o","n",
    ":"," ","r","e","w","r","i","t","e"," ","t","h","e"," ","b","o","o","t"," ","r","e","c","o",
    "r","d">>

\* {"command": "ls"
T_broken_json ==
  <<"{","\"","c","o","m","m","a","n","d","\"",":"," ","\"","l","s","\"">>

\* Command: dir\nCommand:
T_relabel ==
  <<"C","o","m","m","a","n","d",":"," ","d","i","r","\n","C","o","m","m","a","n","d",":">>

Contents ==
  {T_full, T_empty_cmd, T_blank_cmd, T_no_cmd, T_format_json,
   T_untrimmed, T_num_cmd, T_null_cmd, T_array, T_string,
   T_upper_rm, T_bash, T_twice, T_labels, T_upper_label,
   T_comment, T_nothing, T_format_text, T_unlabeled, T_empty_label,
   T_fdisk_text, T_broken_json, T_relabel}

\* _get_fallback_suggestion on each request of the model.
FallbackTable == [r \in Requests |-> get_fallback_suggestion(r)]

\* self._get_fallback_suggestion(request), as the callers below write it.
Fallback(request) == FallbackTable[request]

\* What the awaited backend call ends with: a response whose text is a str or
\* None, or an exception of the client library.
BackendErrors == {"quota", "invalid_api_key", "timeout", "transport"}

Responses ==
  {[kind |-> "text", content |-> PyStr(c)] : c \in Contents}
    \cup {[kind |-> "text", content |-> PyNone]}
    \cup {[kind |-> "raise", content |-> PyRaise(e)] : e \in BackendErrors}

-----------------------------------------------------------------------------
(* ai/command_ai.py: CommandAI *)

ai_vars ==
  <<GEMINI_AVAILABLE, settings, openai_client, gemini_model, pc, current_request,
    backend, net_calls, response, result, via, first_fallback>>

codec_vars == <<codec_pc, codec_record, codec_text, codec_decoded>>

ps_vars == <<probe_outcome, is_available, ps_command, ps_probed>>

call_vars ==
  <<exec_pc, exec_handler, exec_command, exec_path, launches, launched, report,
    raised, tmp_file, unlink_attempted, child, out_pipe, err_pipe, written,
    err_written, printed, err_reported>>

exec_vars == <<ps_vars, call_vars>>

loop_vars ==
  <<loop_pc, recommendations, pending, last_answer, to_execute, require_confirmation>>

vars == <<ai_vars, codec_vars, exec_vars, loop_vars>>

NoResponse == [kind |-> "none", content |-> PyNone]

\* __init__ making the OpenAI client whether or not there is a key.
NewOpenAIClient_any_key(s) ==
  IF s.ai_provider = S_openai
  THEN [t |-> "AsyncOpenAI", api_key |-> <<>>]
  ELSE PyNone

\* CommandAI.__init__: the client handle, if any, that the settings select.
NewOpenAIClient(s) ==
  IF s.ai_provider = S_openai /\ Truthy(s.openai_api_key)
  THEN [t |-> "AsyncOpenAI", api_key |-> s.openai_api_key.v]
  ELSE PyNone

NewGeminiModel(s, available) ==
  IF ~(s.ai_provider = S_openai /\ Truthy(s.openai_api_key))
     /\ s.ai_provider = S_gemini /\ Truthy(s.gemini_api_key) /\ available
  THEN [t |-> "GenerativeModel"]
  ELSE PyNone

\* The body of the try of _suggest_with_openai and _suggest_with_gemini after
\* the await: content = <response text>.strip(), then _parse_ai_response.
ParseResponse(resp, default_shell) ==
  CASE resp.kind = "raise"   -> resp.content
    [] ~IsStr(resp.content)  -> PyRaise("AttributeError")
    [] OTHER                 -> parse_ai_response(Strip(resp.content.v), default_shell)

\* _suggest_with_openai without its except clause: what is raised leaves it.
suggest_with_openai_uncaught(request, resp, default_shell) ==
  [value |-> ParseResponse(resp, default_shell), via |-> "parsed", requests |-> 1]

\* _suggest_with_openai calling the backend once more from its except clause
\* before it falls back.
suggest_with_openai_retry(request, resp, default_shell) ==
  LET parsed == ParseResponse(resp, default_shell)
  IN  IF IsRaise(parsed)
      THEN [value |-> Fallback(request), via |-> "except", requests |-> 2]
      ELSE [value |-> parsed, via |-> "parsed", requests |-> 1]

\* CommandAI._suggest_with_openai(user_request), resp being what the awaited
\* chat.completions.create ended with: value is what it returns, requests the
\* backend requests it has issued (the one create of line 64).
suggest_with_openai(request, resp, default_shell) ==
  LET parsed == ParseResponse(resp, default_shell)
  IN  IF IsRaise(parsed)
      THEN [value |-> Fallback(request), via |-> "except", requests |-> 1]
      ELSE [value |-> parsed, via |-> "parsed", requests |-> 1]

\* CommandAI._suggest_with_gemini(user_request), resp being what the awaited
\* generate_content ended with.
suggest_with_gemini(request, resp, default_shell) ==
  LET parsed == ParseResponse(resp, default_shell)
  IN  IF IsRaise(parsed)
      THEN [value |-> Fallback(request), via |-> "except", requests |-> 1]
      ELSE [value |-> parsed, via |-> "parsed", requests |-> 1]

\* The branch suggest_command takes: "openai", "gemini" or "fallback".
Dispatch(s, client, model) ==
  CASE s.ai_provider = S_fallback                     -> "fallback"
    [] s.ai_provider = S_openai /\ client # PyNone    -> "openai"
    [] s.ai_provider = S_gemini /\ model # PyNone     -> "gemini"
    [] OTHER                                          -> "fallback"

\* first_fallback after a call of _get_fallback_suggestion(request) that
\* returned record, made by the statement `by`.
Logged(request, record, by) ==
  IF first_fallback = PyNone
  THEN [t |-> "call", request |-> request, record |-> record, via |-> by]
  ELSE first_fallback

InitAI ==
  /\ GEMINI_AVAILABLE \in BOOLEAN
  /\ \E env \in Environments :
       /\ settings = NewSettings(env)
       /\ openai_client = NewOpenAIClient(settings)
       /\ gemini_model = NewGeminiModel(settings, GEMINI_AVAILABLE)
  /\ pc = "idle"
  /\ current_request = <<>>
  /\ backend = "none"
  /\ net_calls = 0
  /\ response = NoResponse
  /\ result = PyNone
  /\ via = "none"
  /\ first_fallback = PyNone

\* No record is on its way through the JSON text.
CodecOff ==
  /\ codec_pc = "off"
  /\ codec_record = PyNone
  /\ codec_text = <<>>
  /\ codec_decoded = PyNone

\* An attribute that was never assigned.
Unset == "<unset>"

\* No subordinate process.
NoChild == [program |-> <<>>, ending |-> "none", exited |-> FALSE]

\* No execute is in progress or has returned.
NoCall(at) ==
  /\ exec_pc = at
  /\ exec_handler = "none"
  /\ exec_command = <<>>
  /\ exec_path = "none"
  /\ launches = 0
  /\ launched = Unset
  /\ report = "none"
  /\ raised = FALSE
  /\ tmp_file = "none"
  /\ unlink_attempted = FALSE
  /\ child = NoChild
  /\ out_pipe = <<>>
  /\ err_pipe = 0
  /\ written = <<>>
  /\ err_written = FALSE
  /\ printed = <<>>
  /\ err_reported = FALSE

\* The handlers are not in use.
ExecOff ==
  /\ probe_outcome = <<>>
  /\ is_available = FALSE
  /\ ps_command = Unset
  /\ ps_probed = <<>>
  /\ NoCall("off")

\* What the user types at a prompt: a line, the end of the input (EOFError)
\* or an interrupt (KeyboardInterrupt).
Line(text) == [kind |-> "line", text |-> text]

NoInput == [kind |-> "none", text |-> <<>>]

\* No command is shown.
NoPending == [source |-> "none", command |-> PyNone, shell |-> PyNone]

\* run_interactive does not run.
LoopOff ==
  /\ loop_pc = "off"
  /\ recommendations = <<>>
  /\ pending = NoPending
  /\ last_answer = NoInput
  /\ to_execute = PyNone
  /\ require_confirmation = TRUE

Init ==
  /\ InitAI
  /\ CodecOff
  /\ ExecOff
  /\ LoopOff

\* Settings() and CommandAI(settings) again, in the same process.
Construct(env) ==
  /\ pc # "awaiting"
  /\ settings' = NewSettings(env)
  /\ openai_client' = NewOpenAIClient(settings')
  /\ gemini_model' = NewGeminiModel(settings', GEMINI_AVAILABLE)
  /\ pc' = "idle"
  /\ current_request' = <<>>
  /\ backend' = "none"
  /\ net_calls' = 0
  /\ response' = NoResponse
  /\ result' = PyNone
  /\ via' = "none"
  /\ UNCHANGED <<GEMINI_AVAILABLE, first_fallback>>
  /\ UNCHANGED <<codec_vars, exec_vars, loop_vars>>

\* suggest_command(request) up to its return or to the await of the backend.
SuggestCommand(request) ==
  /\ pc # "awaiting"
  /\ current_request' = request
  /\ response' = NoResponse
  /\ LET branch == Dispatch(settings, openai_client, gemini_model)
     IN  IF branch = "fallback"
         THEN /\ result' = Fallback(request)
              /\ via' = "fallback"
              /\ first_fallback' = Logged(request, result', "fallback")
              /\ backend' = "none"
              /\ net_calls' = 0
              /\ pc' = "returned"
         ELSE /\ backend' = branch
              /\ net_calls' = 1
              /\ result' = PyNone
              /\ via' = "none"
              /\ pc' = "awaiting"
              /\ UNCHANGED first_fallback
  /\ UNCHANGED <<GEMINI_AVAILABLE, settings, openai_client, gemini_model>>
  /\ UNCHANGED <<codec_vars, exec_vars, loop_vars>>

\* _suggest_with_openai discarding the client after an exception of the
\* call.
OpenAIResponds_drop_client(resp) ==
  /\ pc = "awaiting"
  /\ backend = "openai"
  /\ response' = resp
  /\ LET r == suggest_with_openai(current_request, resp, settings.default_shell)
     IN  /\ result' = r.value
         /\ via' = r.via
         /\ first_fallback' = IF r.via = "except" THEN Logged(current_request, r.value, "except")
                              ELSE first_fallback
         /\ net_calls' = r.requests
         /\ openai_client' = IF r.via = "except" THEN PyNone ELSE openai_client
  /\ pc' = "returned"
  /\ UNCHANGED <<GEMINI_AVAILABLE, settings, gemini_model, current_request, backend>>
  /\ UNCHANGED <<codec_vars, exec_vars, loop_vars>>

\* The await of _suggest_with_openai ends with resp; suggest_command returns.
OpenAIResponds(resp) ==
  /\ pc = "awaiting"
  /\ backend = "openai"
  /\ response' = resp
  /\ LET r == suggest_with_openai(current_request, resp, settings.default_shell)
     IN  /\ result' = r.value
         /\ via' = r.via
         /\ first_fallback' = IF r.via = "except" THEN Logged(current_request, r.value, "except")
                              ELSE first_fallback
         /\ net_calls' = r.requests
  /\ pc' = "returned"
  /\ UNCHANGED <<GEMINI_AVAILABLE, settings, openai_client, gemini_model,
                 current_request, backend>>
  /\ UNCHANGED <<codec_vars, exec_vars, loop_vars>>

\* The await of _suggest_with_gemini ends with resp; suggest_command returns.
GeminiResponds(resp) ==
  /\ pc = "awaiting"
  /\ backend = "gemini"
  /\ response' = resp
  /\ LET r == suggest_with_gemini(current_request, resp, settings.default_shell)
     IN  /\ result' = r.value
         /\ via' = r.via
         /\ first_fallback' = IF r.via = "except" THEN Logged(current_request, r.value, "except")
                              ELSE first_fallback
         /\ net_calls' = r.requests
  /\ pc' = "returned"
  /\ UNCHANGED <<GEMINI_AVAILABLE, settings, openai_client, gemini_model,
                 current_request, backend>>
  /\ UNCHANGED <<codec_vars, exec_vars, loop_vars>>

Next ==
  \/ \E env \in Environments : Construct(env)
  \/ \E request \in Requests : SuggestCommand(request)
  \/ \E resp \in Responses : OpenAIResponds(resp)
  \/ \E resp \in Responses : GeminiResponds(resp)

Spec == Init /\ [][Next]_vars

\* What the create call of line 64 ends with when its timeout=30 (line 72)
\* elapses before the backend has answered.
TimedOut == [kind |-> "raise", content |-> PyRaise("timeout")]

\* The timer of the OpenAI request fires.  generate_content (lines 100-103)
\* is awaited with no timeout, so the Gemini request has no such step.
OpenAITimeout == OpenAIResponds(TimedOut)

\* CommandAI with backends that are free never to answer: only the timer the
\* code sets is sure to fire.
SpecLive == Spec /\ WF_vars(OpenAITimeout)

-----------------------------------------------------------------------------
(* The canonical JSON text of a suggestion record (spec.md, section 6), and *)
(* its way back through _parse_ai_response.  The repository holds no        *)
(* encoder: the text is the one json.dumps writes for the record.           *)

\* One character inside a JSON string.
EscapeChar(c) ==
  CASE c = "\"" -> <<"\\", "\"">>
    [] c = "\\" -> <<"\\", "\\">>
    [] c = "\n" -> <<"\\", "n">>
    [] c = "\t" -> <<"\\", "t">>
    [] c = "\r" -> <<"\\", "r">>
    [] IsNonAscii(c) -> <<"\\", "u">> \o HexOf(c)
    [] OTHER -> <<c>>

RECURSIVE EscapeAll(_)
EscapeAll(s) == IF s = <<>> THEN <<>> ELSE EscapeChar(Head(s)) \o EscapeAll(Tail(s))

\* A field's value as JSON: a str, a number, true, false or null.
EncodeValue(x) ==
  CASE x.t = "str"  -> <<"\"">> \o EscapeAll(x.v) \o <<"\"">>
    [] x.t = "num"  -> x.v
    [] x.t = "bool" -> IF x.v THEN W_true ELSE W_false
    [] OTHER        -> W_null

EncodeMember(key, x) == <<"\"">> \o key \o <<"\"", ":", " ">> \o EncodeValue(x)

\* {"command": ..., "description": ..., "shell": ..., "warning": ...}
Encode(record) ==
  <<"{">> \o EncodeMember(K_command, record.command)
    \o <<",", " ">> \o EncodeMember(K_description, record.description)
    \o <<",", " ">> \o EncodeMember(K_shell, record.shell)
    \o <<",", " ">> \o EncodeMember(K_warning, record.warning)
    \o <<"}">>

\* ls
Cmd_ls ==
  <<"l","s">>

\*   Get-Date\t
Cmd_padded ==
  <<" "," ","G","e","t","-","D","a","t","e","\t">>

\* format c:
Cmd_format ==
  <<"f","o","r","m","a","t"," ","c",":">>

\* echo "a\b"
Cmd_quoted ==
  <<"e","c","h","o"," ","\"","a","\\","b","\"">>

\* dir\ncd ..
Cmd_lines ==
  <<"d","i","r","\n","c","d"," ",".",".">>

\* DEL /F /S /Q tmp
Cmd_DEL ==
  <<"D","E","L"," ","/","F"," ","/","S"," ","/","Q"," ","t","m","p">>

\* List files
Desc_x ==
  <<"L","i","s","t"," ","f","i","l","e","s">>

\* careful
Warn_careful ==
  <<"c","a","r","e","f","u","l">>

SampleCommands == {Cmd_ls, Cmd_padded, Cmd_format, Cmd_quoted, Cmd_lines, Cmd_DEL}

SampleDescriptions == {PyStr(<<>>), PyStr(Desc_x)}

SampleShells == {PyStr(S_powershell), PyStr(S_python)}

SampleWarnings == {PyStr(<<>>), PyStr(Warn_careful), PyStr(DestructiveNotice)}

\* Suggestion records: the command is not empty after strip().
SampleRecords ==
  {Suggestion(PyStr(c), d, sh, w) :
     c \in SampleCommands, d \in SampleDescriptions, sh \in SampleShells, w \in SampleWarnings}

InitCodec ==
  /\ InitAI
  /\ ExecOff
  /\ LoopOff
  /\ codec_pc = "record"
  /\ codec_record \in SampleRecords
  /\ codec_text = <<>>
  /\ codec_decoded = PyNone

EncodeRecord ==
  /\ codec_pc = "record"
  /\ codec_text' = Encode(codec_record)
  /\ codec_pc' = "encoded"
  /\ UNCHANGED <<codec_record, codec_decoded>>
  /\ UNCHANGED <<ai_vars, exec_vars, loop_vars>>

DecodeText ==
  /\ codec_pc = "encoded"
  /\ codec_decoded' = parse_ai_response(codec_text, settings.default_shell)
  /\ codec_pc' = "decoded"
  /\ UNCHANGED <<codec_record, codec_text>>
  /\ UNCHANGED <<ai_vars, exec_vars, loop_vars>>

NextCodec == EncodeRecord \/ DecodeText

SpecCodec == InitCodec /\ [][NextCodec]_vars

-----------------------------------------------------------------------------
(* shells/powershell_handler.py: PowerShellHandler *)

\* for cmd in ['powershell', 'pwsh']
candidates == <<"powershell", "pwsh">>

\* What subprocess.run of a probe ends with: an exit code, or an exception.
\* Line 36 catches SubprocessError, FileNotFoundError and TimeoutExpired (a
\* SubprocessError), line 41 everything else, such as PermissionError.
ProbeOutcomes == {"exit0", "exit1", "FileNotFoundError", "TimeoutExpired", "PermissionError"}

CaughtByProbe == {"FileNotFoundError", "TimeoutExpired"}

\* The loop of _check_powershell_availability binding whatever executable
\* runs, with no test of its return code.
ProbeStep_any_exit(st, cmd, outcome) ==
  IF st.done THEN st
  ELSE CASE outcome \in {"exit0", "exit1"} ->
              [done |-> TRUE, is_available |-> TRUE, ps_command |-> cmd,
               probed |-> Append(st.probed, cmd)]
         [] outcome \in CaughtByProbe ->
              [st EXCEPT !.probed = Append(st.probed, cmd)]
         [] OTHER ->
              [st EXCEPT !.done = TRUE, !.probed = Append(st.probed, cmd)]

\* One turn of the loop of _check_powershell_availability, for cmd whose
\* probe ends with outcome.  st.done: the function has returned.
ProbeStep(st, cmd, outcome) ==
  IF st.done THEN st
  ELSE CASE outcome = "exit0" ->
              [done |-> TRUE, is_available |-> TRUE, ps_command |-> cmd,
               probed |-> Append(st.probed, cmd)]
         [] outcome = "exit1" \/ outcome \in CaughtByProbe ->
              [st EXCEPT !.probed = Append(st.probed, cmd)]
         [] OTHER ->
              [st EXCEPT !.done = TRUE, !.probed = Append(st.probed, cmd)]

\* PowerShellHandler.__init__: is_available, ps_command and the probes made,
\* outcome[cmd] being what a probe of cmd ends with.
check_powershell_availability(outcome) ==
  LET st[i \in 0..Len(candidates)] ==
        IF i = 0
        THEN [done |-> FALSE, is_available |-> FALSE, ps_command |-> Unset, probed |-> <<>>]
        ELSE ProbeStep(st[i - 1], candidates[i], outcome[candidates[i]])
  IN  st[Len(candidates)]

\* What launching a subordinate process ends with: it runs, or the call
\* raises.
LaunchOutcomes == {"ok", "FileNotFoundError", "PermissionError"}

\* PowerShellHandler.execute with an except clause for FileNotFoundError
\* only.
ps_execute_narrow(available, launch) ==
  CASE ~available ->
         [pc |-> "returned", launches |-> 0, report |-> "unavailable", raised |-> FALSE]
    [] launch = "ok" ->
         [pc |-> "running", launches |-> 1, report |-> "none", raised |-> FALSE]
    [] launch = "FileNotFoundError" ->
         [pc |-> "returned", launches |-> 1, report |-> "error", raised |-> FALSE]
    [] OTHER ->
         [pc |-> "returned", launches |-> 1, report |-> "none", raised |-> TRUE]

\* PowerShellHandler.execute up to subprocess.run having launched the
\* process, or to its return.
ps_execute(available, launch) ==
  CASE ~available ->
         [pc |-> "returned", launches |-> 0, report |-> "unavailable", raised |-> FALSE]
    [] launch = "ok" ->
         [pc |-> "running", launches |-> 1, report |-> "none", raised |-> FALSE]
    [] OTHER ->
         [pc |-> "returned", launches |-> 1, report |-> "error", raised |-> FALSE]

\* if result.returncode != 0 ... else ...
ExitReport(ending) == IF ending = "exit0" THEN "success" ELSE "failed"

-----------------------------------------------------------------------------
(* shells/python_handler.py: PythonHandler *)

\* 'import '
M_import == <<"i","m","p","o","r","t"," ">>

\* 'def '
M_def == <<"d","e","f"," ">>

\* The test of line 47: the command goes to _execute_script.
is_script(command) ==
  \/ Contains(command, <<"\n">>)
  \/ StartsWith(Strip(command), M_import)
  \/ Contains(command, M_def)

\* What can go wrong in _execute_script before the process runs: creating the
\* temporary file raises, writing the script to it raises, Popen raises.
ScriptFaults == {"none", "tempfile", "write", "launch"}

\* What can go wrong in _execute_single_command before the process runs.
SingleFaults == {"none", "launch"}

\* The temporary file after os.unlink(tmp_file_path), which succeeds (ok) or
\* raises OSError, which is passed over.
Unlinked(ok) == IF ok THEN "deleted" ELSE "exists"

\* _execute_script up to the readline loop, or to its return: lines 94-107,
\* and 132-140 when Popen raises.
execute_script_start(fault, unlink_ok) ==
  CASE fault = "tempfile" ->
         [pc |-> "returned", launches |-> 0, report |-> "error_script",
          tmp_file |-> "none", unlink_attempted |-> FALSE]
    [] fault = "write" ->
         [pc |-> "returned", launches |-> 0, report |-> "error_script",
          tmp_file |-> "exists", unlink_attempted |-> FALSE]
    [] fault = "launch" ->
         [pc |-> "returned", launches |-> 1, report |-> "error_script",
          tmp_file |-> Unlinked(unlink_ok), unlink_attempted |-> TRUE]
    [] OTHER ->
         [pc |-> "streaming", launches |-> 1, report |-> "none",
          tmp_file |-> "exists", unlink_attempted |-> FALSE]

\* _execute_single_command up to the readline loop, or to its return.
execute_single_start(fault) ==
  IF fault = "launch"
  THEN [pc |-> "returned", launches |-> 1, report |-> "error_single",
        tmp_file |-> "none", unlink_attempted |-> FALSE]
  ELSE [pc |-> "streaming", launches |-> 1, report |-> "none",
        tmp_file |-> "none", unlink_attempted |-> FALSE]

\* The message of the except clause of the path taken (lines 90 and 140).
ErrorReport(path) == IF path = "script" THEN "error_script" ELSE "error_single"

-----------------------------------------------------------------------------
(* The handlers at work: commands, subordinate processes, pipes *)

\* print(1)
X_print ==
  <<"p","r","i","n","t","(","1",")">>

\* import os
X_import ==
  <<"i","m","p","o","r","t"," ","o","s">>

\* x = 1\nprint(x)
X_lines ==
  <<"x"," ","="," ","1","\n","p","r","i","n","t","(","x",")">>

\* from os import sep
X_from ==
  <<"f","r","o","m"," ","o","s"," ","i","m","p","o","r","t"," ","s","e","p">>

Commands == {X_print, X_import, X_lines, X_from}

\* What a pipe holds before a write to it blocks.
PipeCap == 2

\* More writes to one stream than its pipe holds.
Flood(stream) == [i \in 1..(PipeCap + 1) |-> stream]

\* What a subordinate process writes, in order: "out" and "pad" a line to
\* stdout, "err" a block to stderr, "bad" a line to stdout that cannot be
\* decoded.
Programs ==
  { <<>>, <<"out">>, <<"err", "out">>, <<"out", "err", "out">>, <<"out", "bad">>,
    <<"pad", "out">>, Flood("out"), Flood("err") }

\* What the process run by PowerShell writes.
PSPrograms == { <<>>, <<"pad", "out", "err">> }

\* The text of a line of stdout: '1\n', and '  2 \n' for "pad".
LineText(line) ==
  IF line = "pad" THEN <<" ", " ", "2", " ", "\n">> ELSE <<"1", "\n">>

RECURSIVE Joined(_)
\* The text of lines of stdout, one after the other.
Joined(lines) ==
  IF lines = <<>> THEN <<>> ELSE LineText(Head(lines)) \o Joined(Tail(lines))

\* What is printed of the stdout that subprocess.run or communicate()
\* returns: `if stdout: print(stdout.strip())`.
PrintedBlock(lines) == IF lines = <<>> THEN <<>> ELSE <<Strip(Joined(lines))>>

\* `if stderr:` under `if returncode != 0:`.
StderrReported(ending, stderr_given) == ending # "exit0" /\ stderr_given

\* The locals of a call that has just begun.
Fresh ==
  /\ out_pipe' = <<>>
  /\ err_pipe' = 0
  /\ written' = <<>>
  /\ err_written' = FALSE
  /\ printed' = <<>>
  /\ err_reported' = FALSE

\* How it ends after its writes: it exits with code 0 or 1, or it never does.
Endings == {"exit0", "exit1", "hang"}

\* The programs that exit with code 1 in the model: those that write to
\* stderr, and the silent one.
ErrorPrograms == {program \in Programs \cup PSPrograms :
     program = <<>> \/ \E i \in 1..Len(program) : program[i] = "err"}

\* The programs that never end in the model.
SilentPrograms == { <<>>, <<"out">> }

Child(program, ending) == [program |-> program, ending |-> ending, exited |-> FALSE]

\* The handlers as QuickCommand.__init__ makes them.
InitExec ==
  /\ InitAI
  /\ settings = NewSettings(Env(PyNone, PyNone, PyNone, PyNone))
  /\ ~GEMINI_AVAILABLE
  /\ CodecOff
  /\ probe_outcome \in [{candidates[i] : i \in 1..Len(candidates)} -> ProbeOutcomes]
  /\ LET st == check_powershell_availability(probe_outcome)
     IN  /\ is_available = st.is_available
         /\ ps_command = st.ps_command
         /\ ps_probed = st.probed
  /\ NoCall("idle")
  /\ LoopOff

\* PowerShellHandler.execute(command): lines 52-67, to the launch.
PSCall(command, launch, program, ending) ==
  /\ exec_pc \in {"idle", "returned"}
  /\ LET r == ps_execute(is_available, launch)
     IN  /\ exec_pc' = r.pc
         /\ launches' = r.launches
         /\ report' = r.report
         /\ raised' = r.raised
         /\ launched' = IF r.launches > 0 THEN ps_command ELSE Unset
         /\ child' = IF r.pc = "running" THEN Child(program, ending) ELSE NoChild
  /\ exec_handler' = "powershell"
  /\ exec_command' = command
  /\ exec_path' = "none"
  /\ tmp_file' = "none"
  /\ unlink_attempted' = FALSE
  /\ Fresh
  /\ UNCHANGED ps_vars

\* PowerShellHandler.execute(command) called on its own.
PSExecute(command, launch, program, ending) ==
  /\ PSCall(command, launch, program, ending)
  /\ UNCHANGED <<ai_vars, codec_vars, loop_vars>>

\* subprocess.run returns after the process has exited: lines 69-79.
PSFinish ==
  /\ exec_pc = "running"
  /\ child.exited
  /\ printed' = PrintedBlock(written)
  /\ err_reported' = StderrReported(child.ending, err_written)
  /\ report' = ExitReport(child.ending)
  /\ exec_pc' = "returned"
  /\ UNCHANGED <<exec_handler, exec_command, exec_path, launches, launched, raised,
                 tmp_file, unlink_attempted, child, out_pipe, err_pipe, written,
                 err_written>>
  /\ UNCHANGED <<ai_vars, codec_vars, ps_vars, loop_vars>>

\* The timeout=30 of subprocess.run elapses: the process is killed and
\* TimeoutExpired is caught on line 81.
PSTimeout ==
  /\ exec_pc = "running"
  /\ ~child.exited
  /\ child' = [child EXCEPT !.exited = TRUE]
  /\ report' = "timed_out"
  /\ exec_pc' = "returned"
  /\ UNCHANGED <<exec_handler, exec_command, exec_path, launches, launched, raised,
                 tmp_file, unlink_attempted, out_pipe, err_pipe, written, err_written,
                 printed, err_reported>>
  /\ UNCHANGED <<ai_vars, codec_vars, ps_vars, loop_vars>>

\* PythonHandler.execute(command) up to the readline loop of the path taken,
\* or to its return.
PyCall(command, fault, unlink_ok, program, ending) ==
  /\ exec_pc \in {"idle", "returned"}
  /\ LET script == is_script(command)
         r == IF script
              THEN execute_script_start(fault, unlink_ok)
              ELSE execute_single_start(fault)
     IN  /\ fault \in (IF script THEN ScriptFaults ELSE SingleFaults)
         /\ exec_path' = IF script THEN "script" ELSE "single"
         /\ exec_pc' = r.pc
         /\ launches' = r.launches
         /\ report' = r.report
         /\ tmp_file' = r.tmp_file
         /\ unlink_attempted' = r.unlink_attempted
         /\ launched' = IF r.launches > 0 THEN "python" ELSE Unset
         /\ child' = IF r.pc = "streaming" THEN Child(program, ending) ELSE NoChild
  /\ exec_handler' = "python"
  /\ exec_command' = command
  /\ raised' = FALSE
  /\ Fresh
  /\ UNCHANGED ps_vars

\* PythonHandler.execute(command) called on its own.
PyExecute(command, fault, unlink_ok, program, ending) ==
  /\ PyCall(command, fault, unlink_ok, program, ending)
  /\ UNCHANGED <<ai_vars, codec_vars, loop_vars>>

\* The subordinate process writes: to a pipe that is full it cannot.  Under
\* subprocess.run (PowerShell) both pipes are read as they fill, so that no
\* write waits.
ChildWrite ==
  /\ exec_pc \in {"running", "streaming"}
  /\ ~child.exited
  /\ child.program # <<>>
  /\ LET item == Head(child.program)
     IN  /\ IF exec_pc = "running"
            THEN UNCHANGED <<out_pipe, err_pipe>>
            ELSE IF item = "err"
                 THEN /\ err_pipe < PipeCap
                      /\ err_pipe' = err_pipe + 1
                      /\ UNCHANGED out_pipe
                 ELSE /\ Len(out_pipe) < PipeCap
                      /\ out_pipe' = Append(out_pipe, item)
                      /\ UNCHANGED err_pipe
         /\ written' = IF item = "err" THEN written ELSE Append(written, item)
         /\ err_written' = (err_written \/ item = "err")
  /\ child' = [child EXCEPT !.program = Tail(child.program)]
  /\ UNCHANGED <<exec_pc, exec_handler, exec_command, exec_path, launches, launched,
                 report, raised, tmp_file, unlink_attempted, printed, err_reported>>
  /\ UNCHANGED <<ai_vars, codec_vars, ps_vars, loop_vars>>

\* The subordinate process exits, which closes its ends of the pipes.
ChildExit ==
  /\ exec_pc \in {"running", "streaming"}
  /\ ~child.exited
  /\ child.program = <<>>
  /\ child.ending \in {"exit0", "exit1"}
  /\ child' = [child EXCEPT !.exited = TRUE]
  /\ UNCHANGED <<exec_pc, exec_handler, exec_command, exec_path, launches, launched,
                 report, raised, tmp_file, unlink_attempted, out_pipe, err_pipe,
                 written, err_written, printed, err_reported>>
  /\ UNCHANGED <<ai_vars, codec_vars, ps_vars, loop_vars>>

\* The loop left as soon as the process has exited, communicate() printing
\* what is still in the pipe as one block.
PyReadline_stop_at_exit(unlink_ok) ==
  /\ exec_pc = "streaming"
  /\ \/ /\ out_pipe # <<>>
        /\ Head(out_pipe) # "bad"
        /\ out_pipe' = Tail(out_pipe)
        /\ printed' = Append(printed, Strip(LineText(Head(out_pipe))))
        /\ UNCHANGED <<exec_pc, report, tmp_file, unlink_attempted, err_pipe, err_reported>>
     \/ /\ out_pipe # <<>>
        /\ Head(out_pipe) = "bad"
        /\ out_pipe' = Tail(out_pipe)
        /\ report' = ErrorReport(exec_path)
        /\ tmp_file' = IF exec_path = "script" THEN Unlinked(unlink_ok) ELSE tmp_file
        /\ unlink_attempted' = (exec_path = "script")
        /\ exec_pc' = "returned"
        /\ UNCHANGED <<err_pipe, printed, err_reported>>
     \/ /\ child.exited
        /\ err_pipe' = 0
        /\ printed' = printed \o PrintedBlock(out_pipe)
        /\ err_reported' = StderrReported(child.ending, err_pipe > 0)
        /\ report' = ExitReport(child.ending)
        /\ tmp_file' = IF exec_path = "script" THEN Unlinked(unlink_ok) ELSE tmp_file
        /\ unlink_attempted' = (exec_path = "script")
        /\ exec_pc' = "returned"
        /\ UNCHANGED out_pipe
  /\ UNCHANGED <<exec_handler, exec_command, exec_path, launches, launched, raised, child,
                 written, err_written>>
  /\ UNCHANGED <<ai_vars, codec_vars, ps_vars, loop_vars>>

\* process.stdout.readline() returns, for it waits for a line or for the end
\* of the stream: a line is printed (lines 68-72, 111-115), a line that cannot
\* be decoded raises and the except clause reports it, and at the end of the
\* stream of a process that has exited the loop is left, communicate() takes
\* what is left in the pipes and the exit code is reported (lines 75-87,
\* 118-130).  The script path goes through its finally clause on the way out.
PyReadline(unlink_ok) ==
  /\ exec_pc = "streaming"
  /\ \/ /\ out_pipe # <<>>
        /\ Head(out_pipe) # "bad"
        /\ out_pipe' = Tail(out_pipe)
        /\ printed' = Append(printed, Strip(LineText(Head(out_pipe))))
        /\ UNCHANGED <<exec_pc, report, tmp_file, unlink_attempted, err_pipe, err_reported>>
     \/ /\ out_pipe # <<>>
        /\ Head(out_pipe) = "bad"
        /\ out_pipe' = Tail(out_pipe)
        /\ report' = ErrorReport(exec_path)
        /\ tmp_file' = IF exec_path = "script" THEN Unlinked(unlink_ok) ELSE tmp_file
        /\ unlink_attempted' = (exec_path = "script")
        /\ exec_pc' = "returned"
        /\ UNCHANGED <<err_pipe, printed, err_reported>>
     \/ /\ out_pipe = <<>>
        /\ child.exited
        /\ err_pipe' = 0
        /\ printed' = printed \o PrintedBlock(out_pipe)
        /\ err_reported' = StderrReported(child.ending, err_pipe > 0)
        /\ report' = ExitReport(child.ending)
        /\ tmp_file' = IF exec_path = "script" THEN Unlinked(unlink_ok) ELSE tmp_file
        /\ unlink_attempted' = (exec_path = "script")
        /\ exec_pc' = "returned"
        /\ UNCHANGED out_pipe
  /\ UNCHANGED <<exec_handler, exec_command, exec_path, launches, launched, raised, child,
                 written, err_written>>
  /\ UNCHANGED <<ai_vars, codec_vars, ps_vars, loop_vars>>

ChildStep == ChildWrite \/ ChildExit

HandlerStep == PSFinish \/ \E unlink_ok \in BOOLEAN : PyReadline(unlink_ok)

\* The subordinate processes to tell apart when the launch succeeds (every
\* program exiting with 0, some with 1, some never ending), one when there is
\* no launch.
ChildrenAfter(launch, programs) ==
  IF launch \in {"ok", "none"}
  THEN {Child(program, "exit0") : program \in programs}
         \cup {Child(program, "exit1") : program \in programs \cap ErrorPrograms}
         \cup {Child(program, "hang") : program \in programs \cap SilentPrograms}
  ELSE {NoChild}

\* The outcomes of os.unlink to tell apart: both when the fault leads to
\* it, one when it does not.
UnlinksAfter(fault) == IF fault = "launch" THEN BOOLEAN ELSE {TRUE}

NextExec ==
  \/ \E command \in Commands, launch \in LaunchOutcomes :
       \E c \in ChildrenAfter(launch, PSPrograms) :
         PSExecute(command, launch, c.program, c.ending)
  \/ PSFinish
  \/ PSTimeout
  \/ \E command \in Commands, fault \in ScriptFaults :
       \E unlink_ok \in UnlinksAfter(fault), c \in ChildrenAfter(fault, Programs) :
         PyExecute(command, fault, unlink_ok, c.program, c.ending)
  \/ ChildWrite
  \/ ChildExit
  \/ \E unlink_ok \in BOOLEAN : PyReadline(unlink_ok)

SpecExec == InitExec /\ [][NextExec]_vars

\* The handlers with the operating system scheduling the subordinate process,
\* the handler running when its read can return, and the timer of
\* subprocess.run firing.  PythonHandler sets no timer.
SpecExecLive ==
  SpecExec /\ WF_vars(ChildStep) /\ WF_vars(HandlerStep) /\ WF_vars(PSTimeout)

-----------------------------------------------------------------------------
(* quickcommand.py: the interactive loop *)

I_exit == <<"e","x","i","t">>
I_quit == <<"q","u","i","t">>
I_help == <<"h","e","l","p">>
I_settings == <<"s","e","t","t","i","n","g","s">>
I_recommendations == <<"r","e","c","o","m","m","e","n","d","a","t","i","o","n","s">>
A_y == <<"y">>
A_yes == <<"y","e","s">>
A_n == <<"n">>
A_no == <<"n","o">>
A_copy == <<"c","o","p","y">>

\* Commands of get_all_recommendations (lines 52-77).
Rec_gpupdate == <<"g","p","u","p","d","a","t","e"," ","/","f","o","r","c","e">>
Rec_netstat == <<"n","e","t","s","t","a","t"," ","-","a","n">>
all_recommendations == <<Rec_gpupdate, Rec_netstat>>

\* How many recommendations are shown (8 of 24 in the code).
RecShown == 1

\* str(i): the key of the i-th recommendation shown.
KeyOf(i) == <<SubSeq(<<"1", "2", "3", "4", "5", "6", "7", "8">>, i, i)[1]>>

\* show_recommendations(): the commands of random.sample(all, RecShown) under
\* the keys '1', '2', ...: every choice of distinct positions.
show_recommendations ==
  { [i \in 1..RecShown |-> all_recommendations[f[i]]] :
      f \in { g \in [1..RecShown -> 1..Len(all_recommendations)] :
                \A i, j \in 1..RecShown : i # j => g[i] # g[j] } }

\* `user_input in recommendations`
IsKey(text) == \E i \in 1..RecShown : text = KeyOf(i)

\* recommendations[user_input]
Recommended(recs, text) == recs[CHOOSE i \in 1..RecShown : text = KeyOf(i)]

\* The confirmation loops taking an empty answer (Enter) as approval.
Confirmation_enter_is_yes(answer) ==
  IF answer.kind # "line" THEN "cancel"
  ELSE LET choice == Lower(Strip(answer.text))
       IN  CASE choice \in {A_y, A_yes, <<>>} -> "yes"
             [] choice \in {A_n, A_no}        -> "no"
             [] choice = A_copy               -> "copy"
             [] OTHER                         -> "again"

\* One turn of the confirmation loops of process_command (lines 165-186) and
\* of run_interactive (lines 263-286): what the answer leads to.  EOFError
\* and KeyboardInterrupt cancel.
Confirmation(answer) ==
  IF answer.kind # "line" THEN "cancel"
  ELSE LET choice == Lower(Strip(answer.text))
       IN  CASE choice \in {A_y, A_yes}  -> "yes"
             [] choice \in {A_n, A_no}   -> "no"
             [] choice = A_copy          -> "copy"
             [] OTHER                    -> "again"

\* execute_command choosing the handler the suggestion names.
execute_command_by_suggestion(default_shell) ==
  IF pending.shell = PyStr(S_python) THEN "python"
  ELSE IF pending.shell = PyStr(S_powershell) THEN "powershell"
  ELSE IF default_shell = S_python THEN "python" ELSE "powershell"

\* execute_command: the handler that runs the command.
execute_command(default_shell) ==
  IF default_shell = S_powershell THEN "powershell"
  ELSE IF default_shell = S_python THEN "python"
  ELSE "powershell"

\* {"command": "print(1)", "shell": "python"}
T_python ==
  <<"{","\"","c","o","m","m","a","n","d","\"",":"," ","\"","p","r","i","n","t","(","1",")","\"",
    ","," ","\"","s","h","e","l","l","\"",":"," ","\"","p","y","t","h","o","n","\"","}">>

\* What the backend call of the loop's requests ends with.
LoopResponses ==
  { [kind |-> "text", content |-> PyStr(T_full)],
    [kind |-> "text", content |-> PyStr(T_python)],
    [kind |-> "text", content |-> PyStr(T_no_cmd)],
    TimedOut }

\* await self.ai.suggest_command(user_input), the backend call ending with
\* resp.
Suggested(request, resp) ==
  LET branch == Dispatch(settings, openai_client, gemini_model)
  IN  CASE branch = "openai" ->
             suggest_with_openai(request, resp, settings.default_shell).value
        [] branch = "gemini" ->
             suggest_with_gemini(request, resp, settings.default_shell).value
        [] OTHER -> Fallback(request)

\* The environments of the loop: OpenAI with the default shell left alone and
\* set to Python, and no variable set.
LoopEnvironments ==
  { Env(E_OpenAI, E_sk, PyNone, PyNone),
    Env(E_OpenAI, E_sk, E_gk, E_Python),
    Env(PyNone, PyNone, PyNone, PyNone) }

\* The lines typed at the main prompt that are no request, and the requests.
CommandInputs ==
  { Line(<<>>), Line(<<" ","E","X","I","T">>),
    Line(I_quit), Line(I_help), Line(I_settings), Line(KeyOf(RecShown)),
    [kind |-> "eof", text |-> <<>>], [kind |-> "interrupt", text |-> <<>>] }

RequestInputs == { Line(R_services), Line(R_format) }

\* The answers typed at the confirmation prompt.
Answers ==
  { Line(A_y), Line(<<" ","Y","E","S"," ">>), Line(A_n), Line(A_copy), Line(<<>>),
    [kind |-> "eof", text |-> <<>>], [kind |-> "interrupt", text |-> <<>>] }

\* QuickCommand() and the start of run_interactive.
InitLoop ==
  /\ InitAI
  /\ \E env \in LoopEnvironments : settings = NewSettings(env)
  /\ ~GEMINI_AVAILABLE
  /\ CodecOff
  /\ probe_outcome = [c \in {"powershell", "pwsh"} |-> "exit0"]
  /\ LET st == check_powershell_availability(probe_outcome)
     IN  /\ is_available = st.is_available
         /\ ps_command = st.ps_command
         /\ ps_probed = st.probed
  /\ NoCall("idle")
  /\ loop_pc = "prompt"
  /\ recommendations \in show_recommendations
  /\ pending = NoPending
  /\ last_answer = NoInput
  /\ to_execute = PyNone
  /\ require_confirmation \in BOOLEAN

\* The main prompt got a line that is no request for the AI, or no line
\* (lines 232-261, 300-304).
ReadCommand(input) ==
  /\ loop_pc = "prompt"
  /\ LET text == Strip(input.text)
         word == Lower(text)
     IN  /\ input.kind = "line" =>
              \/ text = <<>>
              \/ word \in {I_exit, I_quit, I_help, I_settings}
              \/ IsKey(text)
         /\ CASE input.kind = "eof" \/ (input.kind = "line" /\ word \in {I_exit, I_quit}) ->
                   /\ loop_pc' = "ended"
                   /\ pending' = NoPending
              [] input.kind = "line" /\ IsKey(text) ->
                   /\ loop_pc' = "confirm"
                   /\ pending' = [source |-> "recommendation",
                                  command |-> PyStr(Recommended(recommendations, text)),
                                  shell |-> PyNone]
              [] OTHER ->
                   /\ loop_pc' = "prompt"
                   /\ pending' = NoPending
  /\ last_answer' = NoInput
  /\ to_execute' = PyNone
  /\ UNCHANGED <<recommendations, require_confirmation>>
  /\ UNCHANGED <<ai_vars, codec_vars, exec_vars>>

\* The main prompt got 'recommendations' (lines 249-251).
Reshow(sample) ==
  /\ loop_pc = "prompt"
  /\ recommendations' = sample
  /\ last_answer' = NoInput
  /\ UNCHANGED <<loop_pc, pending, to_execute, require_confirmation>>
  /\ UNCHANGED <<ai_vars, codec_vars, exec_vars>>

\* The main prompt got a request: process_command up to its confirmation
\* prompt, or to its return without a suggestion (lines 143-163, 292).
ProcessCommand(input, resp) ==
  /\ loop_pc = "prompt"
  /\ input.kind = "line"
  /\ Strip(input.text) # <<>>
  /\ Lower(Strip(input.text)) \notin {I_exit, I_quit, I_help, I_settings, I_recommendations}
  /\ ~IsKey(Strip(input.text))
  /\ LET text == Strip(input.text)
         suggestion == Suggested(text, resp)
     IN  IF IsSuggestion(suggestion)
         THEN /\ loop_pc' = "confirm"
              /\ pending' = [source |-> "ai", command |-> suggestion.command,
                             shell |-> suggestion.shell]
         ELSE /\ loop_pc' = "prompt"
              /\ pending' = NoPending
  /\ last_answer' = NoInput
  /\ to_execute' = PyNone
  /\ UNCHANGED <<recommendations, require_confirmation>>
  /\ UNCHANGED <<ai_vars, codec_vars, exec_vars>>

\* The confirmation prompt got an answer.  After 'y' process_command
\* returns the command, which run_interactive executes if it is truthy
\* (lines 169-170, 294-296); the loop of the recommendations executes its
\* command at once (lines 267-270).
Answer(answer) ==
  /\ loop_pc = "confirm"
  /\ last_answer' = answer
  /\ LET outcome == Confirmation(answer)
     IN  CASE outcome = "yes" /\ (pending.source = "recommendation" \/ Truthy(pending.command)) ->
                /\ loop_pc' = "approved"
                /\ to_execute' = pending.command
                /\ UNCHANGED pending
           [] outcome = "again" ->
                UNCHANGED <<loop_pc, to_execute, pending>>
           [] OTHER ->
                /\ loop_pc' = "prompt"
                /\ pending' = NoPending
                /\ UNCHANGED to_execute
  /\ UNCHANGED <<recommendations, require_confirmation>>
  /\ UNCHANGED <<ai_vars, codec_vars, exec_vars>>

\* The subordinate processes of the loop's commands.
LoopChildren == { Child(<<"out">>, "exit0") }

\* execute_command(command): the call of the handler's execute (lines
\* 194-201).
ExecuteCommand ==
  /\ loop_pc = "approved"
  /\ \E c \in LoopChildren :
       IF execute_command(settings.default_shell) = "python"
       THEN PyCall(to_execute.v, "none", TRUE, c.program, c.ending)
       ELSE PSCall(to_execute.v, "ok", c.program, c.ending)
  /\ loop_pc' = "executing"
  /\ UNCHANGED <<recommendations, pending, last_answer, to_execute, require_confirmation>>
  /\ UNCHANGED <<ai_vars, codec_vars>>

\* The handler's execute has returned, and execute_command with it: the loop
\* is at its prompt again.
Resume ==
  /\ loop_pc = "executing"
  /\ exec_pc = "returned"
  /\ loop_pc' = "prompt"
  /\ pending' = NoPending
  /\ last_answer' = NoInput
  /\ to_execute' = PyNone
  /\ UNCHANGED <<recommendations, require_confirmation>>
  /\ UNCHANGED <<ai_vars, codec_vars, exec_vars>>

NextLoop ==
  \/ \E input \in CommandInputs : ReadCommand(input)
  \/ \E sample \in show_recommendations : Reshow(sample)
  \/ \E input \in RequestInputs, resp \in LoopResponses : ProcessCommand(input, resp)
  \/ \E answer \in Answers : Answer(answer)
  \/ ExecuteCommand
  \/ PSFinish
  \/ PSTimeout
  \/ ChildWrite
  \/ ChildExit
  \/ PyReadline(TRUE)
  \/ Resume

SpecLoop == InitLoop /\ [][NextLoop]_vars

-----------------------------------------------------------------------------
(* Properties of suggest_command (Spec) *)

\* suggest_command has returned from a call that awaited a backend.
BackendAnswered == pc = "returned" /\ backend # "none"

\* ... and the backend call ended with a response whose text is a str.
TextAnswered == BackendAnswered /\ response.kind = "text" /\ IsStr(response.content)

\* json.loads of that text, stripped.
Decoded == json_loads(Strip(response.content.v))

\* ... and the text is a JSON object.
ObjectAnswered == TextAnswered /\ Decoded.ok /\ IsDict(Decoded.val)

\* The 'command' of that object, PyNone if it has none.
InputCommand == Get(Decoded.val, K_command, PyNone)

\* C1: when a configured backend answers with text from which the parser
\* gets no command, suggest_command returns _get_fallback_suggestion(request);
\* so suggest_command never returns None.
C1_NoCommandFallsBack ==
  /\ (TextAnswered
        /\ parse_ai_response(Strip(response.content.v), settings.default_shell) = PyNone)
       => result = Fallback(current_request)
  /\ pc = "returned" => result # PyNone

\* The backend call, or the decoding and validation of its response, raised:
\* the client library raised, the response has no text, or the 'command' of
\* the JSON object is no str.
BackendFailed ==
  /\ BackendAnswered
  /\ \/ response.kind = "raise"
     \/ response.kind = "text" /\ ~IsStr(response.content)
     \/ ObjectAnswered /\ HasKey(Decoded.val, K_command) /\ ~IsStr(InputCommand)

\* C2: a failure raised by the backend call or while its response is decoded
\* and validated does not leave suggest_command, which returns exactly
\* _get_fallback_suggestion(request).
C2_FailureIsCaught ==
  BackendFailed => ~IsRaise(result) /\ result = Fallback(current_request)

\* C2 happens: the backend answered {"command": 5}, strip() of 5 raised, and
\* the fallback record came back.
C2_Witness ==
  /\ BackendFailed
  /\ response.content = PyStr(T_num_cmd)
  /\ via = "except"
  /\ result = Fallback(current_request)

\* The provider is 'fallback' or 'ollama', or it is 'openai' or 'gemini' and
\* its API key is missing.
NoBackendUsable ==
  \/ settings.ai_provider \in {S_fallback, S_ollama}
  \/ settings.ai_provider = S_openai /\ ~Truthy(settings.openai_api_key)
  \/ settings.ai_provider = S_gemini /\ ~Truthy(settings.gemini_api_key)

\* C3: when no backend is usable, suggest_command awaits no backend, issues
\* no network call and returns exactly _get_fallback_suggestion(request).
C3_NoBackendNoCall ==
  NoBackendUsable =>
    /\ pc # "awaiting"
    /\ net_calls = 0
    /\ pc = "returned" => result = Fallback(current_request) /\ via = "fallback"

\* C3 happens: the provider is 'openai', OPENAI_API_KEY is not set, and a call
\* has returned.
C3_Witness ==
  /\ pc = "returned"
  /\ settings.ai_provider = S_openai
  /\ settings.openai_api_key = PyNone
  /\ net_calls = 0
  /\ result = Fallback(current_request)

\* C4: every record suggest_command returns has a command that is a str and
\* is not empty after strip().
C4_CommandNotEmpty ==
  pc = "returned" /\ IsSuggestion(result) =>
    IsStr(result.command) /\ Strip(result.command.v) # <<>>

\* C4 happens: a record read from the lines of a text that is no JSON.
C4_Witness ==
  /\ TextAnswered
  /\ response.content = PyStr(T_empty_label)
  /\ ~Decoded.ok
  /\ via = "parsed"
  /\ IsSuggestion(result)
  /\ result.command = PyStr(<<"l","s">>)

\* C5: a record made from a backend response whose lower-cased command
\* holds a fragment of the deny-list comes back with a warning that is not
\* empty, whether it was decoded from JSON or read from lines of text.
C5_DestructiveIsWarned ==
  (BackendAnswered /\ via = "parsed" /\ IsSuggestion(result)
     /\ IsDangerous(result.command.v))
    => Truthy(result.warning)

\* What C6 says _validate_suggestion returns for the object answered: the
\* trimmed command, the description and the shell of the object ('' and the
\* default shell if it has none), the destructive notice iff the lower-cased
\* command holds a fragment of the deny-list, its own warning ('' if it has
\* none) otherwise.
Advised ==
  Suggestion(PyStr(Strip(InputCommand.v)),
             Get(Decoded.val, K_description, PyStr(<<>>)),
             Get(Decoded.val, K_shell, PyStr(settings.default_shell)),
             IF IsDangerous(InputCommand.v)
             THEN PyStr(DestructiveNotice)
             ELSE Get(Decoded.val, K_warning, PyStr(<<>>)))

\* C6 as the spec states it: for an object whose command is not the empty
\* string, _validate_suggestion returns the record Advised, never None.
C6_AsStated ==
  (ObjectAnswered /\ IsStr(InputCommand) /\ InputCommand.v # <<>>)
    => result = Advised

\* C6: for an object whose command is a str that is not empty after strip(),
\* _validate_suggestion returns the record Advised, never None, destructive
\* or not.
C6_Advisory ==
  (ObjectAnswered /\ IsStr(InputCommand) /\ Strip(InputCommand.v) # <<>>)
    => result = Advised

\* C6 happens: {"command": "format c:", ...} came back as a record, with the
\* destructive notice.
C6_Witness ==
  /\ ObjectAnswered
  /\ response.content = PyStr(T_format_json)
  /\ IsSuggestion(result)
  /\ result.command = PyStr(<<"f","o","r","m","a","t"," ","c",":">>)
  /\ result.warning = PyStr(DestructiveNotice)

\* C7: for a response that decodes as a JSON object without 'command', or
\* whose 'command' is empty or only whitespace, _parse_ai_response returns
\* None: the lines of the text are not tried.
C7_NoCommandNoRecord ==
  (ObjectAnswered
     /\ \/ ~HasKey(Decoded.val, K_command)
        \/ IsStr(InputCommand) /\ Strip(InputCommand.v) = <<>>)
    => result = PyNone /\ via = "parsed"

\* C7 happens: the backend answered {"command": "  \t"} and None came back.
C7_Witness ==
  /\ ObjectAnswered
  /\ response.content = PyStr(T_blank_cmd)
  /\ result = PyNone
  /\ via = "parsed"

\* What the request scores on rule i.
RuleScore(i) == PatternScore(suggestions[i].patterns, Lower(current_request))

\* C9: _get_fallback_suggestion returns the template of the rule with the
\* highest score, a rule's score being the sum of len(trigger) over its
\* triggers that occur in the lower-cased request, and of the earliest such
\* rule of the table when several share the highest positive score.
C9_HighestScoreFirstWins ==
  (pc = "returned" /\ via \in {"fallback", "except"}) =>
    LET n == Len(suggestions)
        scores == SubSeq([i \in 1..n |-> RuleScore(i)], 1, n)
    IN  (\E i \in 1..n : scores[i] > 0) =>
          \E i \in 1..n :
            /\ scores[i] > 0
            /\ \A j \in 1..n : scores[j] <= scores[i]
            /\ \A j \in 1..(i - 1) : scores[j] < scores[i]
            /\ result.command = PyStr(suggestions[i].command)
            /\ result.description = PyStr(suggestions[i].description)
            /\ result.shell = PyStr(suggestions[i].shell)

\* C9 happens: 'copy ping' scores 4 on the ping rule and 4 on the copy rule,
\* which comes later, and the ping rule's template came back.
C9_Witness ==
  /\ pc = "returned"
  /\ via = "fallback"
  /\ current_request = R_tie
  /\ \E i \in 1..Len(suggestions) : \E j \in (i + 1)..Len(suggestions) :
       /\ RuleScore(i) = RuleScore(j)
       /\ RuleScore(i) > 0
       /\ result.command = PyStr(suggestions[i].command)
       /\ result.command # PyStr(suggestions[j].command)

NoTrigger ==
  \A i \in 1..Len(suggestions) : \A k \in 1..Len(suggestions[i].patterns) :
    ~Contains(Lower(current_request), suggestions[i].patterns[k])

\* The request between the two parts of the placeholder's comment line.
PlaceholderCommand == PlaceholderPrefix \o current_request \o PlaceholderSuffix

\* C11: _get_fallback_suggestion returns a record for every request, and
\* exactly when no trigger of any rule occurs in the lower-cased request the
\* record is the placeholder, whose command is a comment line that starts
\* with '#' and holds the request in its original letter case.
C11_PlaceholderIffNoTrigger ==
  (pc = "returned" /\ via \in {"fallback", "except"}) =>
    /\ IsSuggestion(result)
    /\ IsStr(result.command)
    /\ NoTrigger <=> result.command.v = PlaceholderCommand
    /\ NoTrigger =>
         /\ Head(result.command.v) = "#"
         /\ Contains(result.command.v, current_request)
         /\ result.description = PyStr(PlaceholderDescription)

\* C11 happens: 'Format Disk' holds no trigger, and the placeholder came back
\* with the capitals of the request.
C11_Witness ==
  /\ pc = "returned"
  /\ via = "fallback"
  /\ current_request = R_format
  /\ NoTrigger
  /\ Lower(current_request) # current_request
  /\ result.command.v = PlaceholderCommand

\* The warning says that the suggestion is a fallback, a heuristic, or made
\* without the AI.
StatesHeuristic(warning) ==
  \/ Contains(Lower(warning), <<"f","a","l","l","b","a","c","k">>)
  \/ Contains(Lower(warning), <<"h","e","u","r","i","s","t","i","c">>)
  \/ Contains(Lower(warning), <<"a","i">>)

\* C12: every record _get_fallback_suggestion returns, matched rule or
\* placeholder, carries a warning stating that it is a non-AI heuristic
\* (fallback) suggestion.
C12_FallbackIsLabelled ==
  (pc = "returned" /\ via \in {"fallback", "except"}) =>
    IsStr(result.warning) /\ StatesHeuristic(result.warning.v)

\* C13: a call that awaits a backend, OpenAI or Gemini, returns in the end
\* even if the backend never answers.
C13_AwaitEnds == (pc = "awaiting") ~> (pc = "returned")

C19_ShellIsSupported ==
  (pc = "returned" /\ IsSuggestion(result)) =>
    result.shell \in {PyStr(S_powershell), PyStr(S_python)}

-----------------------------------------------------------------------------
(* Properties of the round trip (SpecCodec) *)

\* C8 as the spec states it: every record, encoded and decoded, comes back
\* equal in all four fields.
C8_AsStated == codec_pc = "decoded" => codec_decoded = codec_record

\* The record is one _validate_suggestion leaves as it is: its command has
\* no whitespace at either end, and its warning is the destructive notice if
\* its lower-cased command holds a fragment of the deny-list.
Validated(record) ==
  /\ Strip(record.command.v) = record.command.v
  /\ IsDangerous(record.command.v) => record.warning = PyStr(DestructiveNotice)

\* C8: a record that _validate_suggestion leaves as it is, encoded as the
\* canonical JSON object and decoded by _parse_ai_response, comes back equal
\* in all four fields.
C8_RoundTrip ==
  (codec_pc = "decoded" /\ Validated(codec_record)) => codec_decoded = codec_record

\* C8 happens: a record whose command holds quotes and a backslash went
\* through the text and came back.
C8_Witness ==
  /\ codec_pc = "decoded"
  /\ codec_record.command = PyStr(Cmd_quoted)
  /\ codec_record.warning = PyStr(Warn_careful)
  /\ Validated(codec_record)
  /\ codec_decoded = codec_record

-----------------------------------------------------------------------------
(* Properties of _parse_text_response (Spec) *)

\* suggest_command has returned from a call whose backend answered a text
\* that is no JSON: _parse_text_response read it.
LinesAnswered == TextAnswered /\ ~Decoded.ok

\* The lines of that text.
TextLines == Split(Strip(response.content.v), "\n")

\* The line begins with the label, in any letter case.
Labelled(line, label) == StartsWith(Lower(Strip(line)), label)

\* What follows the label of a labelled line, trimmed.
LabelValue(line) == Strip(AfterFirst(Strip(line), ":"))

\* No line after the i-th has the label.
LastLabelled(i, label) ==
  \A j \in (i + 1)..Len(TextLines) : ~Labelled(TextLines[j], label)

\* C21: labels are matched in any letter case: the last line that begins
\* with 'command:' (however capitalised) and has a value gives the command,
\* the last line that begins with 'description:' gives the description, both
\* as the trimmed text after the label.
C21_LabelsAnyCase ==
  LinesAnswered =>
    \A i \in 1..Len(TextLines) :
      /\ (Labelled(TextLines[i], L_command) /\ LastLabelled(i, L_command)
            /\ LabelValue(TextLines[i]) # <<>>)
           => IsSuggestion(result) /\ result.command = PyStr(LabelValue(TextLines[i]))
      /\ (Labelled(TextLines[i], L_description) /\ LastLabelled(i, L_description)
            /\ via = "parsed")
           => result.description = PyStr(LabelValue(TextLines[i]))

\* The locals [command, description] of _parse_text_response before its
\* loop reaches the i-th line.
LocalsBefore(i) ==
  TextLoop([command |-> <<>>, description |-> <<>>], SubSeq(TextLines, 1, i - 1))

\* The i-th line supplies a command: it has the label 'Command:' or
\* 'command:' and a value, or it has neither label, is not empty, is no
\* comment, and no command is set when the loop reaches it.
SuppliesCommand(i) ==
  LET line == Strip(TextLines[i])
      command_label == StartsWith(line, L_Command) \/ StartsWith(line, L_command)
      description_label == StartsWith(line, L_Description) \/ StartsWith(line, L_description)
  IN  \/ command_label /\ LabelValue(line) # <<>>
      \/ /\ ~command_label
         /\ ~description_label
         /\ line # <<>>
         /\ ~StartsWith(line, <<"#">>)
         /\ LocalsBefore(i).command = <<>>

\* C22: if some line of a text that is no JSON supplies a command,
\* _parse_text_response returns a record, whose shell is the default shell
\* and whose warning is empty; a line without label is adopted only while no
\* command is set.
C22_NoneOnlyWithoutCommand ==
  LinesAnswered =>
    /\ (\E i \in 1..Len(TextLines) : SuppliesCommand(i))
         => /\ via = "parsed"
            /\ IsSuggestion(result)
            /\ result.shell = PyStr(settings.default_shell)
            /\ result.warning = PyStr(<<>>)
    /\ \A i \in 1..Len(TextLines) :
         (LocalsBefore(i).command # <<>> /\ ~Labelled(TextLines[i], L_command))
           => LocalsBefore(i + 1).command = LocalsBefore(i).command

-----------------------------------------------------------------------------
(* Properties of the state of CommandAI (Spec) *)

\* C26: suggest_command changes nothing of the object: every step of a call
\* (every step but a construction, which leaves pc idle) keeps settings,
\* openai_client and gemini_model; and the two client handles are never both
\* set.
C26_NoLocalSideEffect ==
  /\ [](openai_client = PyNone \/ gemini_model = PyNone)
  /\ [][pc' # "idle" => UNCHANGED <<settings, openai_client, gemini_model>>]_vars

\* C26 happens: a call to the Gemini backend failed and returned the
\* fallback record, the model handle still being set.
C26_Witness ==
  /\ pc = "returned"
  /\ backend = "gemini"
  /\ via = "except"
  /\ gemini_model # PyNone
  /\ openai_client = PyNone

\* The value of a variable of the environment, lower-cased, if it is among
\* the valid ones, and the replacement otherwise; the default if it is not set.
Normalised(value, default, valid, replacement) ==
  LET given == Lower(getenv(value, PyStr(default)).v)
  IN  IF given \in valid THEN given ELSE replacement

\* C30: the settings of every constructed Settings have a valid, lower-case
\* ai_provider and default_shell: the value of the environment lower-cased if
\* that is valid, 'fallback' and 'powershell' otherwise.
C30_SettingsValid ==
  /\ settings.ai_provider \in {S_openai, S_gemini, S_ollama, S_fallback}
  /\ settings.default_shell \in {S_powershell, S_python}
  /\ Lower(settings.ai_provider) = settings.ai_provider
  /\ Lower(settings.default_shell) = settings.default_shell
  /\ \E env \in Environments :
       /\ settings.ai_provider =
            Normalised(env.AI_PROVIDER, S_gemini, {S_openai, S_gemini, S_ollama, S_fallback},
                       S_fallback)
       /\ settings.default_shell =
            Normalised(env.DEFAULT_SHELL, S_powershell, {S_powershell, S_python}, S_powershell)
       /\ settings.openai_api_key = getenv(env.OPENAI_API_KEY, PyNone)
       /\ settings.gemini_api_key = getenv(env.GEMINI_API_KEY, PyNone)

\* C30 happens: the settings made of AI_PROVIDER=claude and
\* DEFAULT_SHELL=bash (the only environment of the model with both keys set
\* that yields 'fallback' and 'powershell'), in use by a call that returned.
C30_Witness ==
  /\ settings.ai_provider = S_fallback
  /\ settings.default_shell = S_powershell
  /\ settings.openai_api_key = E_sk
  /\ settings.gemini_api_key = E_gk
  /\ pc = "returned"

-----------------------------------------------------------------------------
(* Properties of _validate_suggestion (Spec) *)

\* The record _validate_suggestion returns, as the dict it is: the object a
\* second call of _validate_suggestion receives.
RecordDict(record) ==
  PyDict(<< <<K_command, record.command>>, <<K_description, record.description>>,
            <<K_shell, record.shell>>, <<K_warning, record.warning>> >>)

\* C29: _validate_suggestion applied to a record it returned returns the
\* same record, whatever the default shell of the second call.
C29_ValidateIdempotent ==
  (ObjectAnswered /\ via = "parsed" /\ IsSuggestion(result)) =>
    \A shell \in {S_powershell, S_python} :
      validate_suggestion(RecordDict(result), shell) = result

\* C29 happens: the object answered has a command with a fragment of the
\* deny-list and no warning; the record made of it, which has the notice, came
\* back and is what a second validation returns.
C29_Witness ==
  /\ ObjectAnswered
  /\ response.content = PyStr(T_format_json)
  /\ via = "parsed"
  /\ IsSuggestion(result)
  /\ result.warning = PyStr(DestructiveNotice)
  /\ validate_suggestion(RecordDict(result), S_python) = result

-----------------------------------------------------------------------------
(* Properties of the handlers (SpecExec, SpecExecLive) *)

\* execute is waiting for its subordinate process.
Executing == exec_pc \in {"running", "streaming"}

\* C15: both handlers enforce a timeout: an execute whose subordinate process
\* never ends stops waiting and returns.
C15_TimeoutEnds ==
  (Executing /\ child.ending = "hang") ~> (exec_pc = "returned")

\* C16: PythonHandler's reading of the output cannot deadlock: if the
\* subordinate process is one that ends once its writes go through, whatever
\* it writes to stdout and stderr, execute returns.
C16_DrainEnds ==
  (exec_handler = "python" /\ exec_pc = "streaming" /\ child.ending # "hang")
    ~> (exec_pc = "returned")

\* C17: whenever _execute_script has created the temporary file, os.unlink
\* of it has been called by the time _execute_script returns.
C17_TempFileUnlinked ==
  (exec_pc = "returned" /\ exec_path = "script" /\ tmp_file # "none")
    => unlink_attempted

\* C23: PythonHandler.execute runs its input as a script exactly when the
\* text holds a newline, 'import ' or 'def ' anywhere, and as a single
\* statement otherwise; each call takes one of the two paths.
C23_ScriptIffMarker ==
  (exec_handler = "python" /\ exec_pc # "idle") =>
    /\ exec_path \in {"script", "single"}
    /\ exec_path = "script" <=>
         \/ Contains(exec_command, <<"\n">>)
         \/ Contains(exec_command, M_import)
         \/ Contains(exec_command, M_def)

\* execute has reported the exit code of a subordinate process that ended.
ExitReported ==
  exec_pc = "returned" /\ child.exited /\ report \in {"success", "failed"}

\* C24: when execute reports the exit code of a process that wrote to
\* stderr, it has printed that error text, whatever the exit code.
C24_StderrReported ==
  (ExitReported /\ err_written) => err_reported

\* What print(output.strip()) shows of each line of stdout written.
Trimmed(lines) == [i \in 1..Len(lines) |-> Strip(LineText(lines[i]))]

FaultReports == {"unavailable", "timed_out", "error", "error_single", "error_script"}

\* C18: no exception leaves execute of either handler, which launches at most
\* one process per call and, when it returns without an exit code to report,
\* has reported the fault.
C18_NoFaultPropagates ==
  /\ ~raised
  /\ launches <= 1
  /\ Executing => launches = 1
  /\ exec_pc = "returned" => report \in FaultReports \cup {"success", "failed"}
  /\ (exec_pc = "returned" /\ (child = NoChild \/ ~child.exited)) => report \in FaultReports

\* C18 happens: Popen raised in _execute_script, which reported it and
\* returned after one launch.
C18_Witness ==
  /\ exec_pc = "returned"
  /\ exec_handler = "python"
  /\ exec_path = "script"
  /\ launches = 1
  /\ child = NoChild
  /\ report = "error_script"
  /\ ~raised

\* The probe of the k-th executable probed exited with code 0.
ProbeSucceeded(k) == probe_outcome[ps_probed[k]] = "exit0"

\* C20: the executables are probed in the order 'powershell', 'pwsh'; the
\* first whose probe exits with code 0 is bound as ps_command and none is
\* probed after it; every launch of execute uses that binding; if no probe
\* succeeds is_available is False and execute launches nothing and reports
\* that PowerShell is not available; is_available implies that ps_command is
\* one of the two.
C20_FirstProbeBinds ==
  /\ ps_probed = SubSeq(candidates, 1, Len(ps_probed))
  /\ is_available => ps_command \in {candidates[i] : i \in 1..Len(candidates)}
  /\ is_available <=> \E k \in 1..Len(ps_probed) : ProbeSucceeded(k)
  /\ \A k \in 1..Len(ps_probed) :
       ProbeSucceeded(k) => k = Len(ps_probed) /\ ps_command = ps_probed[k]
  /\ ~is_available => ps_command = Unset
  /\ (exec_handler = "powershell" /\ ~is_available) =>
       /\ exec_pc # "running"
       /\ launches = 0
       /\ exec_pc = "returned" => report = "unavailable"
  /\ (exec_handler = "powershell" /\ launches > 0) =>
       is_available /\ launched = ps_command

\* C20 happens: 'powershell' is missing, the probe of 'pwsh' exited with 0,
\* and execute has run 'pwsh' to its end.
C20_Witness ==
  /\ probe_outcome["powershell"] = "FileNotFoundError"
  /\ ps_probed = candidates
  /\ is_available
  /\ ps_command = "pwsh"
  /\ exec_handler = "powershell"
  /\ exec_pc = "returned"
  /\ launched = "pwsh"
  /\ report = "success"

-----------------------------------------------------------------------------
(* Properties of the interactive loop (SpecLoop) *)

\* The answer is 'y' or 'yes', in any letter case and with blanks around it.
Approves(answer) ==
  answer.kind = "line" /\ Lower(Strip(answer.text)) \in {A_y, A_yes}

\* The answer is 'n', 'no' or 'copy', the end of the input or an interrupt.
Declines(answer) ==
  \/ answer.kind \in {"eof", "interrupt"}
  \/ answer.kind = "line" /\ Lower(Strip(answer.text)) \in {A_n, A_no, A_copy}

\* A step that calls execute_command.
ExecuteCommandCalled == loop_pc # "executing" /\ loop_pc' = "executing"

\* A step that starts a subordinate process or makes a handler report.
HandlerActs == exec_pc \in {"idle", "returned"} /\ call_vars' # call_vars

\* C27: nothing is executed without approval.  execute_command is called,
\* and a handler acts, only in the step that follows the answer 'y' or 'yes'
\* to the prompt about the command shown, and with that command; after 'n',
\* 'no', 'copy', the end of the input or an interrupt the loop is at its main
\* prompt (or ended) with nothing to execute; any other answer leaves the
\* confirmation prompt open; whatever require_confirmation is.
C27_ApprovedOnly ==
  /\ [](loop_pc \in {"approved", "executing"} =>
          /\ Approves(last_answer)
          /\ pending.source \in {"ai", "recommendation"}
          /\ to_execute = pending.command)
  /\ [](Declines(last_answer) => loop_pc \in {"prompt", "ended"} /\ to_execute = PyNone)
  /\ []((last_answer.kind = "line" /\ ~Approves(last_answer) /\ ~Declines(last_answer))
          => loop_pc = "confirm")
  /\ [](exec_pc \in {"running", "streaming"} => loop_pc = "executing")
  /\ [][(ExecuteCommandCalled \/ HandlerActs) =>
          /\ loop_pc = "approved"
          /\ Approves(last_answer)
          /\ exec_command' = pending.command.v]_vars

\* C27 happens: with require_confirmation off, the suggestion of the AI was
\* shown, the answer was ' YES ', and the handler runs that command.
C27_Witness ==
  /\ ~require_confirmation
  /\ loop_pc = "executing"
  /\ pending.source = "ai"
  /\ last_answer = Line(<<" ", "Y", "E", "S", " ">>)
  /\ exec_command = pending.command.v
  /\ exec_pc \in {"running", "streaming"}

\* C28: the handler that runs an approved command is the one of
\* settings.default_shell (PythonHandler for 'python', PowerShellHandler
\* otherwise), whatever shell the suggestion names.
C28_HandlerFromSettings ==
  loop_pc = "executing" =>
    exec_handler = IF settings.default_shell = S_python THEN "python" ELSE "powershell"

\* C28 happens: the suggestion names the shell 'python', the default shell
\* is 'powershell', and PowerShellHandler has run the command.
C28_Witness ==
  /\ loop_pc = "executing"
  /\ pending.source = "ai"
  /\ pending.shell = PyStr(S_python)
  /\ settings.default_shell = S_powershell
  /\ exec_handler = "powershell"
  /\ exec_command = pending.command.v
  /\ exec_pc = "returned"

=============================================================================
